---- MODULE Spec2Model ----
(***************************************************************************)
(* One run of the culvert process: the top-level argp parser (culvert.c),  *)
(* the command functions it dispatches (cmd/read.c, cmd/devmem.c,          *)
(* cmd/probe.c, cmd/sfc.c, cmd/coprocessor.c) and the host / soc layer     *)
(* they call.  The process is single threaded; pc is the position in the   *)
(* code, and every call the commands make appends its name to log.         *)
(*                                                                         *)
(* Addresses and lengths are counted in KiB (every sample input is KiB     *)
(* aligned), so the 32-bit address space spans U32_SPAN = 2^22 units and   *)
(* "x > UINT32_MAX" reads "x >= U32_SPAN".  unsigned long is 64 bits wide  *)
(* (LP64): sums of two values below 2^33 never wrap in it.                 *)
(***************************************************************************)
EXTENDS Integers, Sequences, FiniteSets, TLC

\* ---- bounds of the model ----
MaxSkip == 2        \* -s options given on one command line
MaxFields == 6      \* connection fields a user may type after a command
MaxBus == 4         \* cells of the region a bulk transfer works on
SiphonWindow == 2   \* cells one bulk transfer call moves (the 64 KiB window)

\* ---- program constants ----
EACCES == 13
EPERM == 1
SFC_FLASH_WIN == 64   \* (64 << 10) bytes, in KiB
COPROC_TOTAL_MEM_SIZE == 32768   \* (32 * 1024 * 1024) bytes, in KiB
\* enum bridge_mode
bm_permissive == 0
bm_restricted == 1
bm_disabled == 2
ENODEV == 19
EINVAL == 22
EIO == 5
EXIT_SUCCESS == 0
EXIT_FAILURE == 1
EX_USAGE == 64      \* argp_err_exit_status, the status of argp_error / argp_usage
RUNNING == 0 - 1    \* exit_status while the process has not exited

U32_SPAN == 4194304                 \* 2^32 bytes in KiB
U32(x) == x % U32_SPAN              \* uint32_t arithmetic

\* exit(3): the status the parent sees is the low 8 bits
ExitCode(v) == v % 256

\* ---- bridge driver registry (host.c, not part of the sources given) ----
bridge_drivers ==
    << [name |-> "devmem",     priority |-> 10, enabled |-> TRUE],
       [name |-> "debug-uart", priority |-> 5,  enabled |-> TRUE],
       [name |-> "jtag",       priority |-> 1,  enabled |-> TRUE] >>

DriverNames == { bridge_drivers[i].name : i \in 1..Len(bridge_drivers) }
SkipNames == DriverNames \cup {"bogus"}

\* the five connection fields; any further word is one too many
FieldTokens == << "iface", "host", "port", "user", "pass" >>
Fields(n) == [i \in 1..n |-> IF i <= Len(FieldTokens) THEN FieldTokens[i] ELSE "extra"]
\* all five fields typed, the password as an empty word
BlankPassword == << "iface", "host", "port", "user", "" >>
\* the connection words a user may type after a command
FieldVectors == { Fields(n) : n \in 0..MaxFields } \cup { BlankPassword }
IsField(w) == w \in { FieldTokens[k] : k \in 1..Len(FieldTokens) } \cup { "extra", "" }

\* numbers a user types, in KiB
ValueOf ==
    ("0" :> 0) @@ ("0x1000" :> 4) @@ ("0x40000000" :> 1048576) @@
    ("0x80000000" :> 2097152) @@ ("0xc0000000" :> 3145728) @@
    ("0xfffff000" :> 4194300) @@
    ("0x100000000" :> 4194304) @@ ("0x10000" :> 64) @@ ("0x20000" :> 128) @@
    ("0x2000000" :> 32768)
StartTokens == {"0", "0x1000", "0x80000000", "0xc0000000", "0xfffff000",
                "0x100000000"}
LengthTokens == {"0", "0x1000", "0x40000000"}

NoRegion == [start |-> 0, length |-> 0]
\* struct connection_args with nothing set
NoConnection == [interface |-> "", ip |-> "", port |-> "", username |-> "",
                 password |-> ""]
\* DRAM layouts a probed chip can report (sdmc.c): the second ends at 2^32
DramRegions == { [start |-> 2097152, length |-> 1048576],
                 [start |-> 3145728, length |-> 1048576] }
VramLengths == { 32768, 65536 }
\* flash window and chip size read firmware dumps
FlashRegion == [start |-> 524288, length |-> 32768]

LastN(s, n) == SubSeq(s, Len(s) - n + 1, Len(s))

\* ---- bus handle: bulk transfer (ahb.c / soc.c, not part of the sources) ----
Bytes == {0, 1}
Min(a, b) == IF a < b THEN a ELSE b
NoResult == [status |-> "none", count |-> 0]
\* no bulk transfer under way
SipIdle == [pc |-> "idle", bus |-> << >>, orig |-> << >>, addr |-> 0, len |-> 0,
            out |-> << >>, inp |-> << >>, fed |-> << >>, done |-> 0,
            out_ret |-> NoResult, in_ret |-> NoResult]
\* the region is cells 1..MaxBus; address a is cell a + 1
InRange(addr, len) == addr + len <= MaxBus
\* the cells one call of siphon_out moves: the next window, or what is left
siphon_out_window(bus, addr, done, len) ==
    SubSeq(bus, addr + done + 1, addr + done + Min(SiphonWindow, len - done))
\* the bus after one call of siphon_in has written chunk behind what is done
siphon_in_window(bus, addr, done, chunk) ==
    [i \in 1..Len(bus) |->
        IF addr + done < i /\ i <= addr + done + Len(chunk)
        THEN chunk[i - addr - done]
        ELSE bus[i]]
\* byte streams of at most n bytes
Streams(n) == UNION { [1..k -> Bytes] : k \in 0..n }

\* one bulk transfer call moves 64 KiB
SIPHON_WINDOW == 64

\* how far a transfer of length got: all of it, or, stopped by a failure,
\* nothing or one window
Progress(r, length) ==
    IF r < 0 THEN {0, Min(SIPHON_WINDOW, length)} ELSE {length}

\* the count a caller can take from the value returned: the value is 0 or a
\* negated errno (errno = -rc), or, for soc_siphon_in, not negative
ReturnedCount(r) == IF r > 0 THEN r ELSE 0

\* ---- bus handle: scalar access (ahb.c and the bridges, not part of the sources) ----
\* the window the /dev/mem transport can address
DevmemWindow == [start |-> 4, length |-> 2097148]
InRegion(a, region) == region.start <= a /\ a < region.start + region.length
\* addresses a user types: below the window, its first word, inside, its end, above
DevmemAddresses == {"0", "0x1000", "0x10000", "0x80000000", "0xfffff000"}
DevmemValue == 57005
MemInit == [a \in { ValueOf[t] : t \in { u \in DevmemAddresses :
                                           InRegion(ValueOf[u], DevmemWindow) } } |-> 0]
\* read32(addr): the outcomes it can have on a bus holding m
read32(a, region, m) ==
    IF ~InRegion(a, region)
    THEN { [status |-> "OutOfRange", rc |-> 0 - EINVAL, mem |-> m] }
    ELSE { [status |-> "ok", rc |-> 0, mem |-> m],
           [status |-> "TransportError", rc |-> 0 - EIO, mem |-> m] }
\* write32(addr, value)
write32(a, v, region, m) ==
    IF ~InRegion(a, region)
    THEN { [status |-> "OutOfRange", rc |-> 0 - EINVAL, mem |-> m] }
    ELSE { [status |-> "ok", rc |-> 0, mem |-> [m EXCEPT ![a] = v]],
           [status |-> "TransportError", rc |-> 0 - EIO, mem |-> m] }
\* ast_ahb_access(name, argc, argv, ahb): argv is read|write ADDRESS [VALUE]
ast_ahb_access(words, region, m) ==
    IF Len(words) < 2
    THEN { [status |-> "usage", rc |-> 0 - EINVAL, mem |-> m] }
    ELSE IF words[1] = "read"
    THEN read32(ValueOf[words[2]], region, m)
    ELSE write32(ValueOf[words[2]], DevmemValue, region, m)

VARIABLES
    pc,            \* position in the code
    registry,      \* the process-wide bridge driver registry
    can_open,      \* environment: drivers whose probe succeeds (read by host_init)
    nskip,         \* -s options parsed so far
    listed,        \* what print_bridge_drivers printed
    log,           \* calls made so far, in order
    exit_status,   \* status passed to exit(), RUNNING before
    rc,            \* rc of the command function that is running
    op_rc,         \* value the innermost command function returned
    op_done,       \* the innermost command function has returned
    ret,           \* value cmd->fn(state) returned to the top-level parser
    cmd,           \* the (sub)command that is running
    sub_argv,      \* argv of the sub-command as parse_subcommand built it
    nfields,       \* connection fields the user supplied
    host_argv,     \* argument vector handed to host_init
    host,          \* "unopened", "open" or "destroyed"
    ahb,           \* driver behind the bus handle, "none" when there is none
    probed,        \* drivers host_init probed, in order
    host_rc,       \* what host_init returned
    soc,           \* "unprobed", "alive" or "destroyed"
    negotiated,    \* host_init has been entered
    mut_after_neg, \* the registry was mutated after host_init was entered
    chip,          \* flash chip handle: "none", "alive" or "destroyed"
    wp,            \* flash write protect: "untouched", "saved" or "restored"
    xfer,          \* bulk transfers issued: [op, start, length, rc]
    skip_args,     \* the arguments of the -s options parsed so far, in order
    key_arg_count, \* ARGP_KEY_ARG words the sub-command parser counted
    arg_start,     \* arguments.start / .address / .mem_base of the command
    arg_length,    \* arguments.length / .mem_size of the command
    dram,          \* region sdmc_get_dram reported
    vram,          \* region sdmc_get_vram reported
    devmem,        \* the /dev/mem transport: "unopened", "open" or "destroyed"
    am_root,       \* priv_am_root(), read when devmem_init fails
    mem,           \* bus contents at the sampled addresses of the window
    sip,           \* a bulk transfer: bus cells, range, streams, results
    requirement,   \* probe: arguments.requirement (enum bridge_mode)
    list_ifaces,   \* probe: arguments.list_ifaces
    discovered,    \* probe: level soc_probe_bridge_controllers found, -1 before
    sfc_op,        \* sfc: arguments.op
    stdin_left,    \* sfc write: KiB still to come on standard input
    generation,    \* soc_generation(soc) of the probed chip
    scu,           \* SCU handle: "none", "held" or "put"
    step,          \* coprocessor run: the bring-up step to do next
    connection     \* coprocessor run: arguments.connection

vars == << pc, registry, can_open, nskip, listed, log, exit_status, rc, op_rc,
           op_done, ret, cmd, sub_argv, nfields, host_argv, host, ahb, probed, host_rc,
           soc, negotiated, mut_after_neg, chip, wp, xfer, skip_args, key_arg_count,
           arg_start, arg_length, dram, vram, devmem, am_root, mem, requirement,
           list_ifaces, discovered, sfc_op, stdin_left, generation, scu, step,
           connection, sip >>

\* every variable but pc and sip, as main() finds them
ProgInit ==
    /\ registry = bridge_drivers
    /\ can_open = {}
    /\ nskip = 0
    /\ listed = << >>
    /\ log = << >>
    /\ exit_status = RUNNING
    /\ rc = 0
    /\ op_rc = 0
    /\ op_done = FALSE
    /\ ret = 0
    /\ cmd = "none"
    /\ sub_argv = << >>
    /\ nfields = 0
    /\ host_argv = << >>
    /\ host = "unopened"
    /\ ahb = "none"
    /\ probed = << >>
    /\ host_rc = 0
    /\ soc = "unprobed"
    /\ negotiated = FALSE
    /\ mut_after_neg = FALSE
    /\ chip = "none"
    /\ wp = "untouched"
    /\ xfer = << >>
    /\ skip_args = << >>
    /\ key_arg_count = 0
    /\ arg_start = 0
    /\ arg_length = 0
    /\ dram = NoRegion
    /\ vram = NoRegion
    /\ devmem = "unopened"
    /\ am_root = FALSE
    /\ mem = MemInit
    /\ requirement = bm_permissive
    /\ list_ifaces = FALSE
    /\ discovered = 0 - 1
    /\ sfc_op = "none"
    /\ stdin_left = 0
    /\ generation = "none"
    /\ scu = "none"
    /\ step = 1
    /\ connection = NoConnection

Init ==
    /\ pc = "parse_opt"
    /\ sip = SipIdle
    /\ ProgInit

\* ---- groups of variables, for UNCHANGED ----
regv  == << registry, nskip, listed, mut_after_neg, skip_args, sip >>
hostv == << host, ahb, probed, host_argv, negotiated, can_open, host_rc >>
argv  == << cmd, sub_argv, nfields, key_arg_count >>
ramv  == << arg_start, arg_length, dram, vram >>
dmv   == << devmem, am_root, mem >>
prv   == << requirement, list_ifaces, discovered >>
sfcv  == << sfc_op, stdin_left >>
copv  == << generation, scu, step, connection >>
cmdv  == << ramv, dmv, prv, sfcv, copv >>
retv  == << op_rc, op_done, ret >>
devv  == << chip, wp, xfer >>

Log(e) == log' = Append(log, e)
\* exit(code): the process ends where it stands, nothing is released
Exit(code) == exit_status' = ExitCode(code) /\ pc' = "exited"

\* ---- registry operations (host.c) ----
IndexOf(reg, name) ==
    IF \E i \in 1..Len(reg) : reg[i].name = name
    THEN CHOOSE i \in 1..Len(reg) : reg[i].name = name
    ELSE 0

\* disable_bridge_driver(name): non-zero when no driver has that name
disable_bridge_driver(reg, name) ==
    LET i == IndexOf(reg, name) IN
    IF i = 0
    THEN [rc |-> 0 - EINVAL, reg |-> reg]
    ELSE [rc |-> 0, reg |-> [reg EXCEPT ![i].enabled = FALSE]]

\* print_bridge_drivers(): one line per driver, in registry order
print_bridge_drivers(reg) ==
    [i \in 1..Len(reg) |-> [name |-> reg[i].name, disabled |-> ~reg[i].enabled]]

\* mutant: the drivers are walked lowest priority first
RECURSIVE SortAscending(_)
SortAscending(s) ==
    IF s = << >> THEN << >>
    ELSE LET i == CHOOSE i \in 1..Len(s) :
                     \A j \in 1..Len(s) : s[i].priority <= s[j].priority
             rest == [k \in 1..(Len(s) - 1) |-> IF k < i THEN s[k] ELSE s[k + 1]]
         IN << s[i] >> \o SortAscending(rest)

RECURSIVE SortByPriority(_)
SortByPriority(s) ==
    IF s = << >> THEN << >>
    ELSE LET i == CHOOSE i \in 1..Len(s) :
                     /\ \A j \in 1..Len(s) : s[j].priority <= s[i].priority
                     /\ \A j \in 1..(i - 1) : s[j].priority < s[i].priority
             rest == [k \in 1..(Len(s) - 1) |-> IF k < i THEN s[k] ELSE s[k + 1]]
         IN << s[i] >> \o SortByPriority(rest)

\* implicit negotiation: walk the drivers, skip the disabled, stop at the
\* first whose probe succeeds
RECURSIVE Walk(_, _, _)
Walk(order, able, acc) ==
    IF order = << >> THEN [probed |-> acc, handle |-> "none"]
    ELSE LET d == Head(order) IN
         IF ~d.enabled THEN Walk(Tail(order), able, acc)
         ELSE IF d.name \in able
              THEN [probed |-> Append(acc, d.name), handle |-> d.name]
              ELSE Walk(Tail(order), able, Append(acc, d.name))

\* host_init(host, argc, argv): the outcomes it can have
host_init(av, reg, able) ==
    IF Len(av) = 0
    THEN LET w == Walk(SortByPriority(reg), able, << >>) IN
         { [rc |-> IF w.handle = "none" THEN 0 - ENODEV ELSE 0,
            probed |-> w.probed, handle |-> w.handle] }
    ELSE IF Len(av) \in {1, 5} /\ \A i \in 1..Len(av) : av[i] # ""
    THEN { [rc |-> 0, probed |-> << >>, handle |-> av[1]],
           [rc |-> 0 - EIO, probed |-> << >>, handle |-> "none"] }
    ELSE { [rc |-> 0 - EINVAL, probed |-> << >>, handle |-> "none"] }

\* the call of host_init as a command makes it: host_rc' is its result
CallHostInit(av) ==
    /\ negotiated' = TRUE
    /\ host_argv' = av
    /\ \E able \in (IF Len(av) = 0 THEN SUBSET DriverNames ELSE {{}}) :
       \E r \in host_init(av, registry, able) :
          /\ can_open' = able
          /\ host_rc' = r.rc
          /\ probed' = r.probed
          /\ ahb' = r.handle
          /\ host' = IF r.rc < 0 THEN "unopened" ELSE "open"

\* ---- culvert.c: parse_opt, the top-level parser ----
Commands == {"read", "devmem", "probe", "sfc", "coprocessor", "console"}
ReadTypes == {"firmware", "ram"}

\* mutant: -s accepts the name but the registry is left as it was
parse_opt_s_no_disable ==
    /\ pc = "parse_opt"
    /\ nskip < MaxSkip
    /\ \E arg \in SkipNames :
          LET d == disable_bridge_driver(registry, arg) IN
          /\ registry' = registry
          /\ mut_after_neg' = mut_after_neg
          /\ nskip' = nskip + 1
          /\ skip_args' = Append(skip_args, arg)
          /\ IF d.rc # 0
             THEN Log("stderr: not a recognized bridge name") /\ Exit(EXIT_FAILURE)
             ELSE Log("disable_bridge_driver") /\ pc' = "parse_opt"
                                               /\ UNCHANGED exit_status
    /\ UNCHANGED << listed, sip, rc, retv, argv, hostv, soc, devv, cmdv >>

\* mutant: the error is printed but parsing goes on
parse_opt_s_no_exit ==
    /\ pc = "parse_opt"
    /\ nskip < MaxSkip
    /\ \E arg \in SkipNames :
          LET d == disable_bridge_driver(registry, arg) IN
          /\ registry' = d.reg
          /\ mut_after_neg' = (mut_after_neg \/ negotiated)
          /\ nskip' = nskip + 1
          /\ skip_args' = Append(skip_args, arg)
          /\ Log(IF d.rc # 0 THEN "stderr: not a recognized bridge name"
                 ELSE "disable_bridge_driver")
          /\ pc' = "parse_opt"
          /\ UNCHANGED exit_status
    /\ UNCHANGED << listed, sip, rc, retv, argv, hostv, soc, devv, cmdv >>

\* case 's'
parse_opt_s ==
    /\ pc = "parse_opt"
    /\ nskip < MaxSkip
    /\ \E arg \in SkipNames :
          LET d == disable_bridge_driver(registry, arg) IN
          /\ registry' = d.reg
          /\ mut_after_neg' = (mut_after_neg \/ negotiated)
          /\ nskip' = nskip + 1
          /\ skip_args' = Append(skip_args, arg)
          /\ IF d.rc # 0
             THEN Log("stderr: not a recognized bridge name") /\ Exit(EXIT_FAILURE)
             ELSE Log("disable_bridge_driver") /\ pc' = "parse_opt"
                                               /\ UNCHANGED exit_status
    /\ UNCHANGED << listed, sip, rc, retv, argv, hostv, soc, devv, cmdv >>

\* mutant: -l prints the registry as it was registered
parse_opt_l_initial ==
    /\ pc = "parse_opt"
    /\ listed' = print_bridge_drivers(bridge_drivers)
    /\ Log("print_bridge_drivers")
    /\ Exit(EXIT_SUCCESS)
    /\ UNCHANGED << registry, nskip, mut_after_neg, skip_args, sip, rc, retv,
                    argv, hostv, soc, devv, cmdv >>

\* case 'l'
parse_opt_l ==
    /\ pc = "parse_opt"
    /\ listed' = print_bridge_drivers(registry)
    /\ Log("print_bridge_drivers")
    /\ Exit(EXIT_SUCCESS)
    /\ UNCHANGED << registry, nskip, mut_after_neg, skip_args, sip, rc, retv,
                    argv, hostv, soc, devv, cmdv >>

\* case ARGP_KEY_ARGS: look the first word up in cmds and run it
parse_opt_ARGS ==
    /\ pc = "parse_opt"
    /\ \E w \in Commands \cup {"bogus"} :
          IF w \in Commands
          THEN /\ pc' = "cmd_" \o w
               /\ cmd' = w
               /\ UNCHANGED << exit_status, log >>
          ELSE /\ Log("argp_usage")
               /\ Exit(EX_USAGE)
               /\ UNCHANGED cmd
    /\ UNCHANGED << regv, rc, retv, sub_argv, nfields, key_arg_count,
                    hostv, soc, devv, cmdv >>

\* mutant: no exit after the command, the parser takes the next option
parse_opt_exit_missing ==
    /\ pc = "parse_opt:exit"
    /\ pc' = "parse_opt"
    /\ UNCHANGED << regv, exit_status, log, rc, retv, argv, hostv, soc, devv, cmdv >>

\* int rc = cmd->fn(state); exit(rc ? EXIT_FAILURE : EXIT_SUCCESS);
parse_opt_exit ==
    /\ pc = "parse_opt:exit"
    /\ Exit(IF ret # 0 THEN EXIT_FAILURE ELSE EXIT_SUCCESS)
    /\ UNCHANGED << regv, log, rc, retv, argv, hostv, soc, devv, cmdv >>

\* case ARGP_KEY_END: no command word at all
parse_opt_END ==
    /\ pc = "parse_opt"
    /\ Log("argp_usage: no command")
    /\ Exit(EX_USAGE)
    /\ UNCHANGED << regv, rc, retv, argv, hostv, soc, devv, cmdv >>

\* ---- host.c / soc.c calls the commands make ----
\* host_get_ahb(host): the handle, or NULL
host_get_ahb(h) == {h, "none"}
\* soc_probe(soc, ahb): 0, or a negative code when the chip is not recognised
soc_probe_rc == {0, 0 - ENODEV}
\* a call that touches the bus: 0, or a negative code
bus_rc == {0, 0 - EIO}

\* return from the innermost command function to its caller's parser
Return(v, resume) == op_rc' = v /\ op_done' = TRUE /\ pc' = resume

\* ---- cmd/read.c ----
\* parse_opt_global: the first word picks the read type
cmd_read ==
    /\ pc = "cmd_read"
    /\ \E t \in ReadTypes \cup {"bogus", "none"} :
          IF t \in ReadTypes
          THEN /\ pc' = "cmd_read_" \o t
               /\ cmd' = "read " \o t
               /\ UNCHANGED << log, exit_status >>
          ELSE /\ Log(IF t = "none" THEN "argp_usage" ELSE "argp_error")
               /\ Exit(EX_USAGE)
               /\ UNCHANGED cmd
    /\ UNCHANGED << regv, rc, retv, sub_argv, nfields, key_arg_count, hostv, soc,
                    devv, cmdv >>

\* the rest of parse_opt_global once the read type function has returned,
\* then cmd_read's own return: the words after the read type are parsed again
\* by argp_global, which has no options of its own
cmd_read_return ==
    /\ pc = "cmd_read:resume"
    /\ IF \E i \in 1..Len(sub_argv) : sub_argv[i] \in {"-S", "-L"}
       THEN /\ Log("argp: unrecognized option")
            /\ Exit(EX_USAGE)
            /\ UNCHANGED ret
       ELSE /\ ret' = 0
            /\ pc' = "parse_opt:exit"
            /\ UNCHANGED << log, exit_status >>
    /\ UNCHANGED << regv, rc, op_rc, op_done, argv, hostv, soc, devv, cmdv >>

\* cmd_read_firmware: parse_subcommand, every word is a connection field
cmd_read_firmware ==
    /\ pc = "cmd_read_firmware"
    /\ \E fv \in FieldVectors :
          /\ sub_argv' = << "culvert read firmware" >> \o fv
          /\ nfields' = Len(fv)
          /\ key_arg_count' = Len(fv)
    /\ pc' = "fw:host_init"
    /\ UNCHANGED << regv, log, exit_status, rc, retv, cmd, hostv, soc, devv, cmdv >>

cmd_read_firmware_host_init ==
    /\ pc = "fw:host_init"
    /\ Log("host_init")
    /\ CallHostInit(SubSeq(sub_argv,
                           1 + 1 + (Len(sub_argv) - 1 - key_arg_count),
                           Len(sub_argv)))
    /\ rc' = host_rc'
    /\ IF rc' < 0
       THEN Return(rc', "cmd_read:resume")
       ELSE pc' = "fw:host_get_ahb" /\ UNCHANGED << op_rc, op_done >>
    /\ UNCHANGED << regv, exit_status, ret, argv, soc, devv, cmdv >>

cmd_read_firmware_host_get_ahb ==
    /\ pc = "fw:host_get_ahb"
    /\ \E a \in host_get_ahb(ahb) :
          IF a = "none"
          THEN /\ Log("host_get_ahb: NULL")
               /\ rc' = 0 - ENODEV /\ pc' = "fw:cleanup_host"
          ELSE /\ Log("host_get_ahb")
               /\ rc' = rc /\ pc' = "fw:soc_probe"
    /\ UNCHANGED << regv, exit_status, retv, argv, hostv, soc, devv, cmdv >>

cmd_read_firmware_soc_probe ==
    /\ pc = "fw:soc_probe"
    /\ \E r \in soc_probe_rc :
          /\ Log(IF r < 0 THEN "soc_probe: failed" ELSE "soc_probe")
          /\ rc' = r
          /\ IF r < 0
             THEN pc' = "fw:cleanup_host" /\ UNCHANGED soc
             ELSE pc' = "fw:sfc_get_by_name" /\ soc' = "alive"
    /\ UNCHANGED << regv, exit_status, retv, argv, hostv, devv, cmdv >>

cmd_read_firmware_sfc_get_by_name ==
    /\ pc = "fw:sfc_get_by_name"
    /\ Log("sfc_get_by_name")
    /\ \E found \in BOOLEAN :
          IF found
          THEN rc' = rc /\ pc' = "fw:flash_init"
          ELSE rc' = 0 - ENODEV /\ pc' = "fw:cleanup_soc"
    /\ UNCHANGED << regv, exit_status, retv, argv, hostv, soc, devv, cmdv >>

cmd_read_firmware_flash_init ==
    /\ pc = "fw:flash_init"
    /\ Log("flash_init")
    /\ \E r \in bus_rc :
          /\ rc' = r
          /\ IF r # 0
             THEN pc' = "fw:cleanup_soc" /\ UNCHANGED chip
             ELSE pc' = "fw:wp_save" /\ chip' = "alive"
    /\ UNCHANGED << regv, exit_status, retv, argv, hostv, soc, wp, xfer, cmdv >>

cmd_read_firmware_wp_save ==
    /\ pc = "fw:wp_save"
    /\ Log("sfc_write_protect_save")
    /\ \E r \in bus_rc :
          /\ rc' = r
          /\ IF r # 0
             THEN pc' = "fw:cleanup_chip" /\ UNCHANGED wp
             ELSE pc' = "fw:sfc_get_flash" /\ wp' = "saved"
    /\ UNCHANGED << regv, exit_status, retv, argv, hostv, soc, chip, xfer, cmdv >>

cmd_read_firmware_sfc_get_flash ==
    /\ pc = "fw:sfc_get_flash"
    /\ Log("sfc_get_flash")
    /\ \E r \in bus_rc :
          /\ rc' = r
          /\ pc' = IF r < 0 THEN "fw:cleanup_chip" ELSE "fw:siphon"
    /\ UNCHANGED << regv, exit_status, retv, argv, hostv, soc, devv, cmdv >>

cmd_read_firmware_siphon ==
    /\ pc = "fw:siphon"
    /\ Log("soc_siphon_out")
    /\ \E r \in bus_rc : \E n \in Progress(r, FlashRegion.length) :
          /\ rc' = r
          /\ xfer' = Append(xfer, [op |-> "out", start |-> FlashRegion.start,
                                   length |-> FlashRegion.length, rc |-> r,
                                   sent |-> n])
    /\ pc' = "fw:wp_restore"
    /\ UNCHANGED << regv, exit_status, retv, argv, hostv, soc, chip, wp, cmdv >>

cmd_read_firmware_wp_restore ==
    /\ pc = "fw:wp_restore"
    /\ Log("sfc_write_protect_restore")
    /\ wp' = "restored"
    /\ pc' = "fw:cleanup_chip"
    /\ UNCHANGED << regv, exit_status, rc, retv, argv, hostv, soc, chip, xfer, cmdv >>

cmd_read_firmware_cleanup_chip ==
    /\ pc = "fw:cleanup_chip"
    /\ Log("flash_destroy")
    /\ chip' = "destroyed"
    /\ pc' = "fw:cleanup_soc"
    /\ UNCHANGED << regv, exit_status, rc, retv, argv, hostv, soc, wp, xfer, cmdv >>

cmd_read_firmware_cleanup_soc ==
    /\ pc = "fw:cleanup_soc"
    /\ Log("soc_destroy")
    /\ soc' = "destroyed"
    /\ pc' = "fw:cleanup_host"
    /\ UNCHANGED << regv, exit_status, rc, retv, argv, hostv, devv, cmdv >>

cmd_read_firmware_cleanup_host ==
    /\ pc = "fw:cleanup_host"
    /\ Log("host_destroy")
    /\ host' = "destroyed"
    /\ Return(rc, "cmd_read:resume")
    /\ UNCHANGED << regv, exit_status, rc, ret, argv, ahb, probed, host_argv,
                    negotiated, can_open, host_rc, soc, devv, cmdv >>

\* parse_opt_ram over the words after argv[0], in order.  a.status ends as
\* "ok", as "error" (the parser returned ARGP_KEY_ERROR: argp_parse stops and
\* parse_subcommand drops its result) or as "argp_error" (the process exits)
RECURSIVE parse_opt_ram(_, _)
parse_opt_ram(toks, a) ==
    IF toks = << >>
    THEN \* ARGP_KEY_END
         [a EXCEPT !.status = IF a.start + a.length >= U32_SPAN
                              THEN "argp_error" ELSE "ok"]
    ELSE IF Head(toks) = "-S"
    THEN LET v == ValueOf[toks[2]] IN
         IF v >= U32_SPAN
         THEN [a EXCEPT !.start = v, !.status = "error"]
         ELSE parse_opt_ram(SubSeq(toks, 3, Len(toks)), [a EXCEPT !.start = v])
    ELSE IF Head(toks) = "-L"
    THEN LET v == ValueOf[toks[2]] IN
         IF v >= U32_SPAN
         THEN [a EXCEPT !.length = v, !.status = "error"]
         ELSE parse_opt_ram(SubSeq(toks, 3, Len(toks)), [a EXCEPT !.length = v])
    ELSE \* ARGP_KEY_ARG
         LET b == [a EXCEPT !.key_arg_count = @ + 1] IN
         IF b.start + b.length >= U32_SPAN
         THEN [b EXCEPT !.status = "argp_error"]
         ELSE parse_opt_ram(Tail(toks), b)

\* command lines of read ram: -S / -L before or after the connection fields
RamOptions ==
    { s \o l : s \in {<< >>} \cup { << "-S", v >> : v \in StartTokens },
               l \in {<< >>} \cup { << "-L", v >> : v \in LengthTokens } }
RamWords ==
    { o \o fv : o \in RamOptions, fv \in FieldVectors }
    \cup { fv \o o : o \in RamOptions, fv \in FieldVectors }

\* cmd_read_ram: parse_subcommand with argp_ram
cmd_read_ram ==
    /\ pc = "cmd_read_ram"
    /\ \E words \in RamWords :
          LET a == parse_opt_ram(words, [start |-> 0, length |-> 0,
                                         key_arg_count |-> 0, status |-> ""])
          IN /\ sub_argv' = << "culvert read ram" >> \o words
             /\ nfields' = Cardinality({ i \in 1..Len(words) : IsField(words[i]) })
             /\ key_arg_count' = a.key_arg_count
             /\ arg_start' = a.start
             /\ arg_length' = a.length
             /\ IF a.status = "argp_error"
                THEN Log("argp_error") /\ Exit(EX_USAGE)
                ELSE pc' = "ram:host_init" /\ UNCHANGED << log, exit_status >>
    /\ UNCHANGED << regv, rc, retv, cmd, hostv, soc, devv, dram, vram, dmv, prv, sfcv, copv >>

cmd_read_ram_host_init ==
    /\ pc = "ram:host_init"
    /\ Log("host_init")
    /\ CallHostInit(SubSeq(sub_argv,
                           1 + 1 + (Len(sub_argv) - 1 - key_arg_count),
                           Len(sub_argv)))
    /\ rc' = host_rc'
    /\ IF rc' < 0
       THEN Return(rc', "cmd_read:resume")
       ELSE pc' = "ram:host_get_ahb" /\ UNCHANGED << op_rc, op_done >>
    /\ UNCHANGED << regv, exit_status, ret, argv, soc, devv, cmdv >>

cmd_read_ram_host_get_ahb ==
    /\ pc = "ram:host_get_ahb"
    /\ \E a \in host_get_ahb(ahb) :
          IF a = "none"
          THEN /\ Log("host_get_ahb: NULL")
               /\ rc' = 0 - ENODEV /\ pc' = "ram:cleanup_host"
          ELSE /\ Log("host_get_ahb")
               /\ rc' = rc /\ pc' = "ram:soc_probe"
    /\ UNCHANGED << regv, exit_status, retv, argv, hostv, soc, devv, cmdv >>

cmd_read_ram_soc_probe ==
    /\ pc = "ram:soc_probe"
    /\ \E r \in soc_probe_rc :
          /\ Log(IF r < 0 THEN "soc_probe: failed" ELSE "soc_probe")
          /\ rc' = r
          /\ IF r < 0
             THEN pc' = "ram:cleanup_host" /\ UNCHANGED soc
             ELSE pc' = "ram:sdmc_get" /\ soc' = "alive"
    /\ UNCHANGED << regv, exit_status, retv, argv, hostv, devv, cmdv >>

cmd_read_ram_sdmc_get ==
    /\ pc = "ram:sdmc_get"
    /\ Log("sdmc_get")
    /\ \E found \in BOOLEAN :
          IF found
          THEN rc' = rc /\ pc' = "ram:sdmc_get_dram"
          ELSE rc' = 0 - ENODEV /\ pc' = "ram:cleanup_soc"
    /\ UNCHANGED << regv, exit_status, retv, argv, hostv, soc, devv, cmdv >>

cmd_read_ram_sdmc_get_dram ==
    /\ pc = "ram:sdmc_get_dram"
    /\ Log("sdmc_get_dram")
    /\ \/ /\ rc' = 0 - EIO
          /\ pc' = "ram:cleanup_soc"
          /\ UNCHANGED dram
       \/ /\ rc' = 0
          /\ dram' \in DramRegions
          /\ pc' = "ram:range"
    /\ UNCHANGED << regv, exit_status, retv, argv, hostv, soc, devv, arg_start,
                    arg_length, vram, dmv, prv, sfcv, copv >>

\* mutant: the default dump takes all of DRAM, the VRAM tail included
cmd_read_ram_range_whole_dram ==
    /\ pc = "ram:range"
    /\ IF arg_start # 0 /\ arg_length # 0
       THEN /\ IF \/ arg_start < dram.start
                  \/ arg_start + arg_length > U32(dram.start + dram.length)
               THEN rc' = 0 - EINVAL /\ pc' = "ram:cleanup_soc"
               ELSE rc' = rc /\ pc' = "ram:siphon"
            /\ UNCHANGED << log, arg_start, arg_length, vram >>
       ELSE /\ Log("sdmc_get_vram")
            /\ \/ /\ rc' = 0 - EIO
                  /\ pc' = "ram:cleanup_soc"
                  /\ UNCHANGED << arg_start, arg_length, vram >>
               \/ /\ rc' = 0
                  /\ \E vl \in VramLengths :
                        /\ vram' = [start |-> U32(dram.start + dram.length - vl),
                                    length |-> vl]
                        /\ arg_start' = dram.start
                        /\ arg_length' = dram.length
                  /\ pc' = "ram:siphon"
    /\ UNCHANGED << regv, exit_status, retv, argv, hostv, soc, devv, dram, dmv, prv, sfcv, copv >>

\* if (arguments.start && arguments.length) ... else ...
cmd_read_ram_range ==
    /\ pc = "ram:range"
    /\ IF arg_start # 0 /\ arg_length # 0
       THEN /\ IF \/ arg_start < dram.start
                  \/ arg_start + arg_length > U32(dram.start + dram.length)
               THEN rc' = 0 - EINVAL /\ pc' = "ram:cleanup_soc"
               ELSE rc' = rc /\ pc' = "ram:siphon"
            /\ UNCHANGED << log, arg_start, arg_length, vram >>
       ELSE /\ Log("sdmc_get_vram")
            /\ \/ /\ rc' = 0 - EIO
                  /\ pc' = "ram:cleanup_soc"
                  /\ UNCHANGED << arg_start, arg_length, vram >>
               \/ /\ rc' = 0
                  /\ \E vl \in VramLengths :
                        /\ vram' = [start |-> U32(dram.start + dram.length - vl),
                                    length |-> vl]
                        /\ arg_start' = dram.start
                        /\ arg_length' = U32(dram.length - vl)
                  /\ pc' = "ram:siphon"
    /\ UNCHANGED << regv, exit_status, retv, argv, hostv, soc, devv, dram, dmv, prv, sfcv, copv >>

cmd_read_ram_siphon ==
    /\ pc = "ram:siphon"
    /\ Log("soc_siphon_out")
    /\ \E r \in bus_rc : \E n \in Progress(r, arg_length) :
          /\ rc' = r
          /\ xfer' = Append(xfer, [op |-> "out", start |-> arg_start,
                                   length |-> arg_length, rc |-> r, sent |-> n])
    /\ pc' = "ram:cleanup_soc"
    /\ UNCHANGED << regv, exit_status, retv, argv, hostv, soc, chip, wp, cmdv >>

cmd_read_ram_cleanup_soc ==
    /\ pc = "ram:cleanup_soc"
    /\ Log("soc_destroy")
    /\ soc' = "destroyed"
    /\ pc' = "ram:cleanup_host"
    /\ UNCHANGED << regv, exit_status, rc, retv, argv, hostv, devv, cmdv >>

cmd_read_ram_cleanup_host ==
    /\ pc = "ram:cleanup_host"
    /\ Log("host_destroy")
    /\ host' = "destroyed"
    /\ Return(rc, "cmd_read:resume")
    /\ UNCHANGED << regv, exit_status, rc, ret, argv, ahb, probed, host_argv,
                    negotiated, can_open, host_rc, soc, devv, cmdv >>

\* ---- cmd/devmem.c ----
\* command lines of devmem, and parse_opt's verdict on them
DevmemWords ==
    { << >>, << "bogus" >>, << "read" >> }
    \cup { << "read", a >> : a \in DevmemAddresses }
    \cup { << "write", a >> : a \in DevmemAddresses }
    \cup { << "write", a, "0xdead" >> : a \in DevmemAddresses }
devmem_parse_ok(words) ==
    /\ Len(words) >= 1                                \* state->argc < 2
    /\ words[1] \in {"read", "write"}
    /\ words[1] = "write" => Len(words) + 1 = 4      \* state->argc != 4

cmd_devmem ==
    /\ pc = "cmd_devmem"
    /\ \E words \in DevmemWords :
          /\ sub_argv' = << "culvert devmem" >> \o words
          /\ IF devmem_parse_ok(words)
             THEN pc' = "devmem:init" /\ UNCHANGED << log, exit_status >>
             ELSE Log("argp_usage") /\ Exit(EX_USAGE)
    /\ UNCHANGED << regv, rc, retv, cmd, nfields, key_arg_count, hostv, soc, devv,
                    cmdv >>

\* mutant: the hint is printed without asking priv_am_root()
cmd_devmem_init_hint_for_root ==
    /\ pc = "devmem:init"
    /\ \E r \in {0, 0 - EACCES, 0 - EPERM, 0 - ENODEV} :
          /\ rc' = r
          /\ IF r < 0
             THEN /\ am_root' \in BOOLEAN
                  /\ Log(IF (r = 0 - EACCES \/ r = 0 - EPERM)
                         THEN "priv_print_unprivileged"
                         ELSE "perror: devmem_init")
                  /\ Exit(EXIT_FAILURE)
                  /\ UNCHANGED devmem
             ELSE /\ Log("devmem_init")
                  /\ devmem' = "open"
                  /\ pc' = "devmem:access"
                  /\ UNCHANGED << exit_status, am_root >>
    /\ UNCHANGED << regv, retv, argv, hostv, soc, devv, ramv, mem, prv, sfcv, copv >>

\* rc = devmem_init(devmem), and the diagnostic of a failure
cmd_devmem_init ==
    /\ pc = "devmem:init"
    /\ \E r \in {0, 0 - EACCES, 0 - EPERM, 0 - ENODEV} :
          /\ rc' = r
          /\ IF r < 0
             THEN /\ am_root' \in BOOLEAN
                  /\ Log(IF (r = 0 - EACCES \/ r = 0 - EPERM) /\ ~am_root'
                         THEN "priv_print_unprivileged"
                         ELSE "perror: devmem_init")
                  /\ Exit(EXIT_FAILURE)
                  /\ UNCHANGED devmem
             ELSE /\ Log("devmem_init")
                  /\ devmem' = "open"
                  /\ pc' = "devmem:access"
                  /\ UNCHANGED << exit_status, am_root >>
    /\ UNCHANGED << regv, retv, argv, hostv, soc, devv, ramv, mem, prv, sfcv, copv >>

\* mutant: the result of ast_ahb_access is not looked at
cmd_devmem_access_unchecked ==
    /\ pc = "devmem:access"
    /\ \E r \in ast_ahb_access(Tail(sub_argv), DevmemWindow, mem) :
          /\ rc' = r.rc
          /\ mem' = r.mem
          /\ Log("ast_ahb_access") /\ pc' = "devmem:destroy"
                                   /\ UNCHANGED exit_status
    /\ UNCHANGED << regv, retv, argv, hostv, soc, devv, ramv, devmem, am_root,
                    prv, sfcv, copv >>

\* rc = ast_ahb_access(name, devmem_cmd.argc - 1, devmem_cmd.argv + 1, ahb)
cmd_devmem_access ==
    /\ pc = "devmem:access"
    /\ \E r \in ast_ahb_access(Tail(sub_argv), DevmemWindow, mem) :
          /\ rc' = r.rc
          /\ mem' = r.mem
          /\ IF r.rc # 0
             THEN Log("perror: ast_ahb_access") /\ Exit(EXIT_FAILURE)
             ELSE Log("ast_ahb_access") /\ pc' = "devmem:destroy"
                                        /\ UNCHANGED exit_status
    /\ UNCHANGED << regv, retv, argv, hostv, soc, devv, ramv, devmem, am_root,
                    prv, sfcv, copv >>

cmd_devmem_destroy ==
    /\ pc = "devmem:destroy"
    /\ devmem' = "destroyed"
    /\ \E cleanup \in bus_rc :
          IF cleanup # 0
          THEN Log("perror: devmem_destroy") /\ Exit(EXIT_FAILURE) /\ UNCHANGED ret
          ELSE Log("devmem_destroy") /\ ret' = 0 /\ pc' = "parse_opt:exit"
                                     /\ UNCHANGED exit_status
    /\ UNCHANGED << regv, rc, op_rc, op_done, argv, hostv, soc, devv, ramv, am_root,
                    mem, prv, sfcv, copv >>

\* ---- cmd/probe.c ----
ProbeRequirements == {"", "integrity", "confidentiality", "bogus"}

\* parse_opt: -l, -r and the connection fields
cmd_probe ==
    /\ pc = "cmd_probe"
    /\ \E l \in BOOLEAN, r \in ProbeRequirements, fv \in FieldVectors :
          /\ sub_argv' = << "culvert probe" >>
                           \o (IF l THEN << "-l" >> ELSE << >>)
                           \o (IF r # "" THEN << "-r", r >> ELSE << >>)
                           \o fv
          /\ nfields' = Len(fv)
          /\ key_arg_count' = Len(fv)
          /\ list_ifaces' = l
          /\ requirement' = IF r = "integrity" THEN bm_restricted
                            ELSE IF r = "" THEN bm_permissive ELSE bm_disabled
          /\ IF r = "bogus" \/ (Len(fv) > 1 /\ Len(fv) # 5)
             THEN Log("argp_error") /\ Exit(EX_USAGE)
             ELSE pc' = "probe:host_init" /\ UNCHANGED << log, exit_status >>
    /\ UNCHANGED << regv, rc, retv, cmd, hostv, soc, devv, ramv, dmv, discovered,
                    sfcv, copv >>

\* if ((rc = host_init(...) < 0)): rc is the truth value of the comparison
cmd_probe_host_init ==
    /\ pc = "probe:host_init"
    /\ Log("host_init")
    /\ CallHostInit(SubSeq(sub_argv,
                           1 + 1 + (Len(sub_argv) - 1 - key_arg_count),
                           Len(sub_argv)))
    /\ IF host_rc' < 0
       THEN rc' = EXIT_FAILURE /\ pc' = "probe:done"
       ELSE rc' = 0 /\ pc' = "probe:host_get_ahb"
    /\ UNCHANGED << regv, exit_status, retv, argv, soc, devv, cmdv >>

cmd_probe_host_get_ahb ==
    /\ pc = "probe:host_get_ahb"
    /\ \E a \in host_get_ahb(ahb) :
          IF a = "none"
          THEN /\ Log("host_get_ahb: NULL")
               /\ rc' = EXIT_FAILURE /\ pc' = "probe:cleanup_host"
          ELSE /\ Log("host_get_ahb")
               /\ rc' = rc /\ pc' = "probe:soc_probe"
    /\ UNCHANGED << regv, exit_status, retv, argv, hostv, soc, devv, cmdv >>

\* mutant: a failed soc_probe leaves through the soc cleanup label
cmd_probe_soc_probe_cleanup_soc ==
    /\ pc = "probe:soc_probe"
    /\ \E r \in soc_probe_rc :
          /\ Log(IF r < 0 THEN "soc_probe: failed" ELSE "soc_probe")
          /\ rc' = r
          /\ IF r < 0
             THEN pc' = "probe:cleanup_soc" /\ UNCHANGED soc
             ELSE pc' = "probe:bridge_controllers" /\ soc' = "alive"
    /\ UNCHANGED << regv, exit_status, retv, argv, hostv, devv, cmdv >>

cmd_probe_soc_probe ==
    /\ pc = "probe:soc_probe"
    /\ \E r \in soc_probe_rc :
          /\ Log(IF r < 0 THEN "soc_probe: failed" ELSE "soc_probe")
          /\ rc' = r
          /\ IF r < 0
             THEN pc' = "probe:cleanup_host" /\ UNCHANGED soc
             ELSE pc' = "probe:bridge_controllers" /\ soc' = "alive"
    /\ UNCHANGED << regv, exit_status, retv, argv, hostv, devv, cmdv >>

\* soc_list_bridge_controllers, or soc_probe_bridge_controllers and the
\* comparison with the requirement
\* mutant: the required level must lie strictly below the discovered one
cmd_probe_bridge_controllers_strict ==
    /\ pc = "probe:bridge_controllers"
    /\ IF list_ifaces
       THEN /\ Log("soc_list_bridge_controllers")
            /\ rc' = EXIT_SUCCESS
            /\ UNCHANGED discovered
       ELSE /\ Log("soc_probe_bridge_controllers")
            /\ \/ /\ rc' = EXIT_FAILURE
                  /\ UNCHANGED discovered
               \/ /\ discovered' \in {bm_permissive, bm_restricted, bm_disabled}
                  /\ rc' = IF requirement < discovered'
                           THEN EXIT_SUCCESS ELSE EXIT_FAILURE
    /\ pc' = "probe:cleanup_soc"
    /\ UNCHANGED << regv, exit_status, retv, argv, hostv, soc, devv, ramv, dmv,
                    requirement, list_ifaces, sfcv, copv >>

\* soc_list_bridge_controllers, or soc_probe_bridge_controllers and the verdict
cmd_probe_bridge_controllers ==
    /\ pc = "probe:bridge_controllers"
    /\ IF list_ifaces
       THEN /\ Log("soc_list_bridge_controllers")
            /\ rc' = EXIT_SUCCESS
            /\ UNCHANGED discovered
       ELSE /\ Log("soc_probe_bridge_controllers")
            /\ \/ /\ rc' = EXIT_FAILURE
                  /\ UNCHANGED discovered
               \/ /\ discovered' \in {bm_permissive, bm_restricted, bm_disabled}
                  /\ rc' = IF requirement <= discovered'
                           THEN EXIT_SUCCESS ELSE EXIT_FAILURE
    /\ pc' = "probe:cleanup_soc"
    /\ UNCHANGED << regv, exit_status, retv, argv, hostv, soc, devv, ramv, dmv,
                    requirement, list_ifaces, sfcv, copv >>

cmd_probe_cleanup_soc ==
    /\ pc = "probe:cleanup_soc"
    /\ Log("soc_destroy")
    /\ soc' = "destroyed"
    /\ pc' = "probe:cleanup_host"
    /\ UNCHANGED << regv, exit_status, rc, retv, argv, hostv, devv, cmdv >>

cmd_probe_cleanup_host ==
    /\ pc = "probe:cleanup_host"
    /\ Log("host_destroy")
    /\ host' = "destroyed"
    /\ pc' = "probe:done"
    /\ UNCHANGED << regv, exit_status, rc, retv, argv, ahb, probed, host_argv,
                    negotiated, can_open, host_rc, soc, devv, cmdv >>

\* done: exit(rc);
cmd_probe_done ==
    /\ pc = "probe:done"
    /\ Exit(rc)
    /\ UNCHANGED << regv, log, rc, retv, argv, hostv, soc, devv, cmdv >>

\* ---- cmd/sfc.c ----
SfcTypes == {"", "fmc", "bogus"}
SfcModes == {"", "read", "write", "erase", "bogus"}
SfcAddresses == {"", "0", "0x10000"}
SfcLengths == {"", "0", "0x1000", "0x20000"}
\* lengths of the stream on standard input, in KiB
StdinLengths == {0, 40, 100}

\* parse_opt: what the options leave in arguments, "ok" unless argp_error ran
sfc_parse_opt(t, m, a, l) ==
    [address |-> IF a = "" THEN 0 ELSE U32(ValueOf[a]),
     length  |-> IF l = "" THEN 0 ELSE U32(ValueOf[l]),
     op      |-> IF m \in {"read", "write", "erase"} THEN m ELSE "none",
     status  |-> IF t = "bogus" \/ m = "bogus" THEN "argp_error"  \* case 't', 'm'
                 ELSE IF t = "" THEN "argp_error"                 \* Missing SFC type
                 ELSE IF m = "" THEN "argp_error"                 \* op == 99
                 ELSE IF l = "" \/ ValueOf[l] = 0 THEN "argp_error"
                 ELSE "ok"]

cmd_sfc ==
    /\ pc = "cmd_sfc"
    /\ \E t \in SfcTypes, m \in SfcModes, a \in SfcAddresses, l \in SfcLengths,
          fv \in FieldVectors :
          LET p == sfc_parse_opt(t, m, a, l) IN
          /\ sub_argv' = << "culvert sfc" >>
                           \o (IF t = "" THEN << >> ELSE << "-t", t >>)
                           \o (IF m = "" THEN << >> ELSE << "-m", m >>)
                           \o (IF a = "" THEN << >> ELSE << "-a", a >>)
                           \o (IF l = "" THEN << >> ELSE << "-l", l >>)
                           \o fv
          /\ nfields' = Len(fv)
          /\ key_arg_count' = Len(fv)
          /\ arg_start' = p.address
          /\ arg_length' = p.length
          /\ sfc_op' = p.op
          /\ IF p.status = "ok"
             THEN pc' = "sfc:host_init" /\ UNCHANGED << log, exit_status >>
             ELSE Log("argp_error") /\ Exit(EX_USAGE)
    /\ UNCHANGED << regv, rc, retv, cmd, hostv, soc, devv, dram, vram, dmv, prv,
                    stdin_left, copv >>

cmd_sfc_host_init ==
    /\ pc = "sfc:host_init"
    /\ CallHostInit(SubSeq(sub_argv,
                           1 + 1 + (Len(sub_argv) - 1 - key_arg_count),
                           Len(sub_argv)))
    /\ rc' = host_rc'
    /\ IF rc' < 0
       THEN Log("host_init: failed") /\ Exit(EXIT_FAILURE)
       ELSE Log("host_init") /\ pc' = "sfc:host_get_ahb" /\ UNCHANGED exit_status
    /\ UNCHANGED << regv, retv, argv, soc, devv, cmdv >>

\* mutant: the handle is used without the NULL test
cmd_sfc_host_get_ahb_unchecked ==
    /\ pc = "sfc:host_get_ahb"
    /\ \E a \in host_get_ahb(ahb) :
          IF a = "none"
          THEN /\ Log("host_get_ahb: NULL")
               /\ rc' = rc /\ pc' = "sfc:soc_probe"
          ELSE /\ Log("host_get_ahb")
               /\ rc' = rc /\ pc' = "sfc:soc_probe"
    /\ UNCHANGED << regv, exit_status, retv, argv, hostv, soc, devv, cmdv >>

\* if (!(ahb = host_get_ahb(host))) goto cleanup_host
cmd_sfc_host_get_ahb ==
    /\ pc = "sfc:host_get_ahb"
    /\ \E a \in host_get_ahb(ahb) :
          IF a = "none"
          THEN /\ Log("host_get_ahb: NULL")
               /\ rc' = EXIT_FAILURE /\ pc' = "sfc:cleanup_host"
          ELSE /\ Log("host_get_ahb")
               /\ rc' = rc /\ pc' = "sfc:soc_probe"
    /\ UNCHANGED << regv, exit_status, retv, argv, hostv, soc, devv, cmdv >>

cmd_sfc_soc_probe ==
    /\ pc = "sfc:soc_probe"
    /\ \E r \in soc_probe_rc :
          /\ Log(IF r < 0 THEN "soc_probe: failed" ELSE "soc_probe")
          /\ rc' = r
          /\ IF r < 0
             THEN pc' = "sfc:cleanup_host" /\ UNCHANGED soc
             ELSE pc' = "sfc:sfc_get_by_name" /\ soc' = "alive"
    /\ UNCHANGED << regv, exit_status, retv, argv, hostv, devv, cmdv >>

\* no rc is set when the controller is missing
cmd_sfc_sfc_get_by_name ==
    /\ pc = "sfc:sfc_get_by_name"
    /\ \E found \in BOOLEAN :
          IF found
          THEN Log("sfc_get_by_name") /\ pc' = "sfc:flash_init"
          ELSE Log("sfc_get_by_name: NULL") /\ pc' = "sfc:cleanup_soc"
    /\ UNCHANGED << regv, exit_status, rc, retv, argv, hostv, soc, devv, cmdv >>

cmd_sfc_flash_init ==
    /\ pc = "sfc:flash_init"
    /\ Log("flash_init")
    /\ \E r \in bus_rc :
          /\ rc' = r
          /\ IF r < 0
             THEN pc' = "sfc:cleanup_soc" /\ UNCHANGED chip
             ELSE pc' = "sfc:" \o sfc_op /\ chip' = "alive"
    /\ UNCHANGED << regv, exit_status, retv, argv, hostv, soc, wp, xfer, cmdv >>

\* case flash_op_read: malloc, flash_read, write(1, ...)
cmd_sfc_read ==
    /\ pc = "sfc:read"
    /\ \/ /\ Log("malloc: failed")
          /\ UNCHANGED << rc, xfer >>
       \/ /\ Log("flash_read")
          /\ \E r \in bus_rc, egress \in {0 - 1, arg_length} :
                /\ rc' = IF egress = 0 - 1 THEN 0 - EIO ELSE r
                /\ xfer' = Append(xfer, [op |-> "flash_read", start |-> arg_start,
                                         length |-> arg_length, rc |-> r])
    /\ pc' = "sfc:cleanup_flash"
    /\ UNCHANGED << regv, exit_status, retv, argv, hostv, soc, chip, wp, cmdv >>

\* case flash_op_write, up to the loop: the chunk size replaces the length
cmd_sfc_write ==
    /\ pc = "sfc:write"
    /\ arg_length' = SFC_FLASH_WIN
    /\ \/ /\ Log("malloc: failed")
          /\ pc' = "sfc:cleanup_flash"
          /\ UNCHANGED stdin_left
       \/ /\ stdin_left' \in StdinLengths
          /\ pc' = "sfc:write_loop"
          /\ UNCHANGED log
    /\ UNCHANGED << regv, exit_status, rc, retv, argv, hostv, soc, devv, arg_start,
                    dram, vram, dmv, prv, sfc_op, copv >>

\* mutant: the address is not moved on after a chunk
cmd_sfc_write_loop_same_address ==
    /\ pc = "sfc:write_loop"
    /\ \/ \* end of input
          /\ stdin_left = 0
          /\ pc' = "sfc:cleanup_flash"
          /\ UNCHANGED << log, rc, xfer, arg_start, stdin_left >>
       \/ \* read fails
          /\ rc' = 0 - EIO
          /\ Log("read: failed")
          /\ pc' = "sfc:cleanup_flash"
          /\ UNCHANGED << xfer, arg_start, stdin_left >>
       \/ \* read delivers 1..arguments.length bytes, all of them or fewer
          /\ stdin_left > 0
          /\ \E ingress \in { IF stdin_left < arg_length THEN stdin_left
                              ELSE arg_length,
                              IF stdin_left < 32 THEN stdin_left ELSE 32 } :
             \E r \in bus_rc :
                /\ Log("flash_write")
                /\ rc' = r
                /\ xfer' = Append(xfer, [op |-> "flash_write", start |-> arg_start,
                                         length |-> ingress, rc |-> r])
                /\ stdin_left' = stdin_left - ingress
                /\ IF r < 0
                   THEN pc' = "sfc:cleanup_flash" /\ UNCHANGED arg_start
                   ELSE pc' = "sfc:write_loop" /\ UNCHANGED arg_start
    /\ UNCHANGED << regv, exit_status, retv, argv, hostv, soc, chip, wp, arg_length,
                    dram, vram, dmv, prv, sfc_op, copv >>

\* one turn of while ((ingress = read(0, buf, arguments.length)))
cmd_sfc_write_loop ==
    /\ pc = "sfc:write_loop"
    /\ \/ \* end of input
          /\ stdin_left = 0
          /\ pc' = "sfc:cleanup_flash"
          /\ UNCHANGED << log, rc, xfer, arg_start, stdin_left >>
       \/ \* read fails
          /\ rc' = 0 - EIO
          /\ Log("read: failed")
          /\ pc' = "sfc:cleanup_flash"
          /\ UNCHANGED << xfer, arg_start, stdin_left >>
       \/ \* read delivers 1..arguments.length bytes, all of them or fewer
          /\ stdin_left > 0
          /\ \E ingress \in { IF stdin_left < arg_length THEN stdin_left
                              ELSE arg_length,
                              IF stdin_left < 32 THEN stdin_left ELSE 32 } :
             \E r \in bus_rc :
                /\ Log("flash_write")
                /\ rc' = r
                /\ xfer' = Append(xfer, [op |-> "flash_write", start |-> arg_start,
                                         length |-> ingress, rc |-> r])
                /\ stdin_left' = stdin_left - ingress
                /\ IF r < 0
                   THEN pc' = "sfc:cleanup_flash" /\ UNCHANGED arg_start
                   ELSE pc' = "sfc:write_loop" /\ arg_start' = U32(arg_start + ingress)
    /\ UNCHANGED << regv, exit_status, retv, argv, hostv, soc, chip, wp, arg_length,
                    dram, vram, dmv, prv, sfc_op, copv >>

cmd_sfc_erase ==
    /\ pc = "sfc:erase"
    /\ Log("flash_erase")
    /\ \E r \in bus_rc :
          /\ rc' = r
          /\ xfer' = Append(xfer, [op |-> "flash_erase", start |-> arg_start,
                                   length |-> arg_length, rc |-> r])
    /\ pc' = "sfc:cleanup_flash"
    /\ UNCHANGED << regv, exit_status, retv, argv, hostv, soc, chip, wp, cmdv >>

cmd_sfc_cleanup_flash ==
    /\ pc = "sfc:cleanup_flash"
    /\ Log("flash_destroy")
    /\ chip' = "destroyed"
    /\ pc' = "sfc:cleanup_soc"
    /\ UNCHANGED << regv, exit_status, rc, retv, argv, hostv, soc, wp, xfer, cmdv >>

cmd_sfc_cleanup_soc ==
    /\ pc = "sfc:cleanup_soc"
    /\ Log("soc_destroy")
    /\ soc' = "destroyed"
    /\ pc' = "sfc:cleanup_host"
    /\ UNCHANGED << regv, exit_status, rc, retv, argv, hostv, devv, cmdv >>

cmd_sfc_cleanup_host ==
    /\ pc = "sfc:cleanup_host"
    /\ Log("host_destroy")
    /\ host' = "destroyed"
    /\ ret' = rc
    /\ Return(rc, "parse_opt:exit")
    /\ UNCHANGED << regv, exit_status, rc, argv, ahb, probed, host_argv,
                    negotiated, can_open, host_rc, soc, devv, cmdv >>

\* ---- cmd/console.c ----
\* HOST_UART BMC_UART BAUD USER PASSWORD, and one word too many
ConsoleTokens == << "uart3", "uart2", "115200", "root", "0penBmc", "extra" >>
ConsoleWords ==
    { SubSeq(ConsoleTokens, 1, n) : n \in 0..Len(ConsoleTokens) }
    \cup { << "uart1", "uart2", "115200", "root", "0penBmc" >>,
           << "uart3", "uart5", "115200", "root", "0penBmc" >> }
\* parse_opt of console.c: exactly five words, uart3 first and uart2 second
console_parse_ok(words) ==
    /\ Len(words) = 5
    /\ words[1] = "uart3"
    /\ words[2] = "uart2"

\* cmd_console: parse_subcommand with argp_console
cmd_console ==
    /\ pc = "cmd_console"
    /\ \E words \in ConsoleWords :
          /\ sub_argv' = << "culvert console" >> \o words
          /\ IF console_parse_ok(words)
             THEN pc' = "console:host_init" /\ UNCHANGED << log, exit_status >>
             ELSE Log("argp_usage") /\ Exit(EX_USAGE)
    /\ UNCHANGED << regv, rc, retv, cmd, nfields, key_arg_count, hostv, soc, devv, cmdv >>

\* host_init(host, console_cmd.argc - 4, console_cmd.argv + 4): of the six
\* words of argv that leaves USER and PASSWORD, two connection fields, which
\* host_init turns away; the rest of cmd_console is therefore never entered
cmd_console_host_init ==
    /\ pc = "console:host_init"
    /\ CallHostInit(SubSeq(sub_argv, 1 + 4, Len(sub_argv)))
    /\ rc' = host_rc'
    /\ IF rc' < 0
       THEN Log("host_init: failed") /\ Exit(EXIT_FAILURE)
       ELSE Log("host_init") /\ pc' = "console:host_get_ahb" /\ UNCHANGED exit_status
    /\ UNCHANGED << regv, retv, argv, soc, devv, cmdv >>

\* host_init is not part of the sources: here its result is left open, so
\* that the body of cmd_console is entered whatever host_init makes of the
\* two words it is handed
cmd_console_host_init_any ==
    /\ pc = "console:host_init"
    /\ negotiated' = TRUE
    /\ host_argv' = SubSeq(sub_argv, 1 + 4, Len(sub_argv))
    /\ \E r \in soc_probe_rc :
          /\ host_rc' = r
          /\ rc' = r
          /\ IF r < 0
             THEN /\ Log("host_init: failed") /\ Exit(EXIT_FAILURE)
                  /\ UNCHANGED << host, ahb >>
             ELSE /\ Log("host_init") /\ pc' = "console:step"
                  /\ host' = "open" /\ ahb' = "handle"
                  /\ UNCHANGED exit_status
    /\ UNCHANGED << regv, retv, argv, probed, can_open, soc, devv, cmdv >>

\* the calls of cmd_console from host_get_ahb to suart_run, each with the
\* label its failure jumps to and the rc it leaves with
ConsoleCall(c, l, e) == [call |-> c, fail |-> l, err |-> e]
ConsoleFlush == ConsoleCall("suart_flush", "suart_cleanup", 0 - EIO)
ConsoleSteps ==
    << ConsoleCall("host_get_ahb", "host_cleanup", EXIT_FAILURE),
       ConsoleCall("soc_probe", "host_cleanup", 0 - ENODEV),
       ConsoleCall("clk_get", "soc_cleanup", 0),
       ConsoleCall("uart_mux_get", "soc_cleanup", 0),
       ConsoleCall("clk_enable", "soc_cleanup", 0 - EIO),
       ConsoleCall("uart_mux_route", "soc_cleanup", 0 - EIO),
       ConsoleCall("suart_init_defaults", "mux_restore", 0 - EIO),
       ConsoleCall("suart_set_baud", "suart_cleanup", 0 - EIO),
       ConsoleFlush, ConsoleFlush, ConsoleFlush, ConsoleFlush, ConsoleFlush,
       ConsoleCall("uart_mux_restore", "suart_cleanup", 0 - EIO),
       ConsoleCall("uart_mux_connect", "suart_cleanup", 0 - EIO),
       ConsoleCall("suart_set_baud", "suart_cleanup", 0 - EIO),
       ConsoleFlush, ConsoleFlush, ConsoleFlush, ConsoleFlush, ConsoleFlush,
       ConsoleCall("suart_run", "suart_cleanup", 0 - EIO) >>
\* the calls that return a handle: no rc is set when it is NULL
ConsoleHandles == {"clk_get", "uart_mux_get"}

\* mutant: a failed suart_init_defaults leaves through soc_cleanup
cmd_console_step_init_skips_restore ==
    /\ pc = "console:step"
    /\ LET c == ConsoleSteps[step] IN
       \E ok \in BOOLEAN :
          IF ok
          THEN /\ Log(c.call)
               /\ rc' = IF c.call \in ConsoleHandles \cup {"host_get_ahb"}
                        THEN rc ELSE 0
               /\ soc' = IF c.call = "soc_probe" THEN "alive" ELSE soc
               /\ IF step = Len(ConsoleSteps)
                  THEN pc' = "console:suart_cleanup" /\ UNCHANGED step
                  ELSE pc' = "console:step" /\ step' = step + 1
          ELSE /\ Log(c.call \o ": failed")
               /\ rc' = IF c.call \in ConsoleHandles THEN rc ELSE c.err
               /\ pc' = IF c.call = "suart_init_defaults"
                        THEN "console:soc_cleanup" ELSE "console:" \o c.fail
               /\ UNCHANGED << soc, step >>
    /\ UNCHANGED << regv, exit_status, retv, argv, hostv, devv, ramv, dmv, prv,
                    sfcv, generation, scu, connection >>

\* one call of the body: it succeeds and the next one follows, or it fails
\* and the command jumps to the call's cleanup label
cmd_console_step ==
    /\ pc = "console:step"
    /\ LET c == ConsoleSteps[step] IN
       \E ok \in BOOLEAN :
          IF ok
          THEN /\ Log(c.call)
               /\ rc' = IF c.call \in ConsoleHandles \cup {"host_get_ahb"}
                        THEN rc ELSE 0
               /\ soc' = IF c.call = "soc_probe" THEN "alive" ELSE soc
               /\ IF step = Len(ConsoleSteps)
                  THEN pc' = "console:suart_cleanup" /\ UNCHANGED step
                  ELSE pc' = "console:step" /\ step' = step + 1
          ELSE /\ Log(c.call \o ": failed")
               /\ rc' = IF c.call \in ConsoleHandles THEN rc ELSE c.err
               /\ pc' = "console:" \o c.fail
               /\ UNCHANGED << soc, step >>
    /\ UNCHANGED << regv, exit_status, retv, argv, hostv, devv, ramv, dmv, prv,
                    sfcv, generation, scu, connection >>

\* suart_cleanup: cleanup = suart_destroy(suart)
cmd_console_suart_cleanup ==
    /\ pc = "console:suart_cleanup"
    /\ Log("suart_destroy")
    /\ pc' = "console:mux_restore"
    /\ UNCHANGED << regv, exit_status, rc, retv, argv, hostv, soc, devv, cmdv >>

\* mux_restore: cleanup = uart_mux_restore(mux)
cmd_console_mux_restore ==
    /\ pc = "console:mux_restore"
    /\ Log("uart_mux_restore")
    /\ pc' = "console:soc_cleanup"
    /\ UNCHANGED << regv, exit_status, rc, retv, argv, hostv, soc, devv, cmdv >>

cmd_console_soc_cleanup ==
    /\ pc = "console:soc_cleanup"
    /\ Log("soc_destroy")
    /\ soc' = "destroyed"
    /\ pc' = "console:host_cleanup"
    /\ UNCHANGED << regv, exit_status, rc, retv, argv, hostv, devv, cmdv >>

\* host_cleanup: host_destroy(host); return rc;
cmd_console_host_cleanup ==
    /\ pc = "console:host_cleanup"
    /\ Log("host_destroy")
    /\ host' = "destroyed"
    /\ ret' = rc
    /\ Return(rc, "parse_opt:exit")
    /\ UNCHANGED << regv, exit_status, rc, argv, ahb, probed, host_argv,
                    negotiated, can_open, host_rc, soc, devv, cmdv >>

\* ---- cmd/coprocessor.c ----
\* mutant: the interface is stored before the number of words is checked
parse_via_stores_first(argi, av, args) ==
    IF argi >= Len(av) THEN [rc |-> 0 - EINVAL, args |-> args]
    ELSE LET argc == Len(av) - argi - 1 IN
         IF argc = 0 THEN [rc |-> 0 - EINVAL, args |-> args]
         ELSE IF argc # 1 /\ argc # 5
         THEN [rc |-> 0 - EINVAL, args |-> [args EXCEPT !.interface = av[argi + 2]]]
         ELSE IF argc = 1
         THEN [rc |-> 0, args |-> [args EXCEPT !.interface = av[argi + 2]]]
         ELSE [rc |-> 0,
               args |-> [interface |-> av[argi + 2], ip |-> av[argi + 3],
                         port |-> av[argi + 4], username |-> av[argi + 5],
                         password |-> av[argi + 6]]]

\* parse_via(argi, state, args) on state->argv = av (av[k + 1] is argv[k])
parse_via(argi, av, args) ==
    IF argi >= Len(av) THEN [rc |-> 0 - EINVAL, args |-> args]
    ELSE LET argc == Len(av) - argi - 1 IN
         IF argc # 1 /\ argc # 5 THEN [rc |-> 0 - EINVAL, args |-> args]
         ELSE IF argc = 1
         THEN [rc |-> 0, args |-> [args EXCEPT !.interface = av[argi + 2]]]
         ELSE [rc |-> 0,
               args |-> [interface |-> av[argi + 2], ip |-> av[argi + 3],
                         port |-> av[argi + 4], username |-> av[argi + 5],
                         password |-> av[argi + 6]]]

\* parse_opt_run over the words av[k..]: every word "via" calls parse_via
\* with argi = state->next - 1, the first failure is the argp_error; the
\* words behind an accepted "via" are parsed on as positionals
RECURSIVE parse_opt_run_via(_, _, _)
parse_opt_run_via(av, k, args) ==
    IF k > Len(av) THEN [rc |-> 0, args |-> args]
    ELSE IF av[k] # "via" THEN parse_opt_run_via(av, k + 1, args)
    ELSE LET v == parse_via(k - 1, av, args) IN
         IF v.rc # 0 THEN v ELSE parse_opt_run_via(av, k + 1, v.args)

\* the fields host_init_new finds set in a struct connection_args
ConnectionFields(c) ==
    IF c.interface = "" THEN << >>
    ELSE IF c.ip = "" THEN << c.interface >>
    ELSE << c.interface, c.ip, c.port, c.username, c.password >>

CoprocBases == {"bogus", "0x1000", "0x80000000", "0xfffff000", "0x100000000"}
CoprocSizes == {"", "0x1000", "0x2000000"}
\* the words after ADDRESS LENGTH: nothing, or via and some fields
CoprocVia == {<< >>} \cup { << "via" >> \o fv : fv \in FieldVectors }
             \cup { << "via", "iface", "host", "port", "via", "extra" >> }
Generations == {"ast_g4", "ast_g5", "ast_g6"}

\* the bring-up sequence of cmd_coprocessor_run, steps 1. to 10. with the delays
CoprocSteps ==
    << "scu_writel CTRL 0", "scu_writel CTRL RESET_ASSERT", "soc_siphon_in",
       "scu_writel MEM_BASE", "scu_writel IMEM_LIMIT", "scu_writel DMEM_LIMIT",
       "scu_writel CACHE_RANGE", "scu_writel CACHE_FUNC", "usleep",
       "scu_writel CTRL 0", "usleep", "scu_writel CTRL EN" >>

\* parse_opt_global: run, stop, or a word that is neither
cmd_coprocessor ==
    /\ pc = "cmd_coprocessor"
    /\ \E w \in {"run", "stop", "bogus", "none"} :
          IF w \in {"run", "stop"}
          THEN /\ pc' = "cmd_coprocessor_" \o w
               /\ cmd' = "coprocessor " \o w
               /\ UNCHANGED << log, exit_status, ret >>
          ELSE IF w = "none"
          THEN Log("argp_usage") /\ Exit(EX_USAGE) /\ UNCHANGED << cmd, ret >>
          ELSE /\ ret' = EXIT_FAILURE
               /\ pc' = "parse_opt:exit"
               /\ UNCHANGED << log, exit_status, cmd >>
    /\ UNCHANGED << regv, rc, op_rc, op_done, sub_argv, nfields, key_arg_count,
                    hostv, soc, devv, cmdv >>

\* cmd_coprocessor after run or stop has returned: return EXIT_FAILURE
cmd_coprocessor_return ==
    /\ pc = "cmd_coprocessor:resume"
    /\ ret' = EXIT_FAILURE
    /\ pc' = "parse_opt:exit"
    /\ UNCHANGED << regv, log, exit_status, rc, op_rc, op_done, argv, hostv, soc,
                    devv, cmdv >>

\* cmd_coprocessor_run: parse_subcommand with parse_opt_run
cmd_coprocessor_run ==
    /\ pc = "cmd_coprocessor_run"
    /\ \E b \in CoprocBases, sz \in CoprocSizes, via \in CoprocVia :
          LET words == << b >> \o (IF sz = "" THEN << >> ELSE << sz >>) \o via
              av == << "culvert coprocessor run" >> \o words
              \* "via" is argv[state->next - 1]: the third word, or the
              \* second when no LENGTH was given
              v == parse_opt_run_via(av, 2, NoConnection)
          IN /\ sub_argv' = av
             /\ nfields' = IF via = << >> THEN 0 ELSE Len(via) - 1
             /\ arg_start' = IF b = "bogus" THEN 0 ELSE ValueOf[b]
             /\ arg_length' = IF sz = "" THEN 0 ELSE ValueOf[sz]
             /\ connection' = v.args
             \* case 1 (mem_size) runs only for a second word that is not
             \* "via"; ARGP_KEY_END counts every word: state->arg_num < 2
             /\ IF \/ b = "bogus"
                   \/ (sz # "" /\ ValueOf[sz] # COPROC_TOTAL_MEM_SIZE)
                   \/ v.rc # 0
                   \/ Len(words) < 2
                THEN Log("argp_error") /\ Exit(EX_USAGE)
                ELSE pc' = "run:host_init" /\ UNCHANGED << log, exit_status >>
    /\ UNCHANGED << regv, rc, retv, cmd, key_arg_count, hostv, soc, devv, dram,
                    vram, dmv, prv, sfcv, generation, scu, step >>

cmd_coprocessor_run_host_init ==
    /\ pc = "run:host_init"
    /\ Log("host_init_new")
    /\ CallHostInit(ConnectionFields(connection))
    /\ rc' = host_rc'
    /\ IF rc' < 0
       THEN Return(EXIT_FAILURE, "cmd_coprocessor:resume")
       ELSE pc' = "run:host_get_ahb" /\ UNCHANGED << op_rc, op_done >>
    /\ UNCHANGED << regv, exit_status, ret, argv, soc, devv, cmdv >>

cmd_coprocessor_run_host_get_ahb ==
    /\ pc = "run:host_get_ahb"
    /\ \E a \in host_get_ahb(ahb) :
          IF a = "none"
          THEN /\ Log("host_get_ahb: NULL")
               /\ rc' = EXIT_FAILURE /\ pc' = "run:cleanup_host"
          ELSE /\ Log("host_get_ahb")
               /\ rc' = rc /\ pc' = "run:soc_probe"
    /\ UNCHANGED << regv, exit_status, retv, argv, hostv, soc, devv, cmdv >>

cmd_coprocessor_run_soc_probe ==
    /\ pc = "run:soc_probe"
    /\ \E r \in soc_probe_rc :
          IF r < 0
          THEN /\ Log("soc_probe: failed")
               /\ rc' = EXIT_FAILURE
               /\ pc' = "run:cleanup_host"
               /\ UNCHANGED << soc, generation >>
          ELSE /\ Log("soc_probe")
               /\ rc' = r
               /\ soc' = "alive"
               /\ generation' \in Generations
               /\ pc' = "run:checks"
    /\ UNCHANGED << regv, exit_status, retv, argv, hostv, devv, ramv, dmv, prv,
                    sfcv, scu, step, connection >>

\* from soc_generation to scu_get: everything that is checked before the
\* first register write
cmd_coprocessor_run_checks ==
    /\ pc = "run:checks"
    /\ IF generation # "ast_g6"
       THEN /\ rc' = EXIT_FAILURE /\ pc' = "run:cleanup_soc"
            /\ UNCHANGED << log, dram, scu >>
       ELSE \/ /\ Log("sdmc_get: failed")
               /\ rc' = EXIT_FAILURE /\ pc' = "run:cleanup_soc"
               /\ UNCHANGED << dram, scu >>
            \/ /\ Log("sdmc_get_dram: failed")
               /\ rc' = EXIT_FAILURE /\ pc' = "run:cleanup_soc"
               /\ UNCHANGED << dram, scu >>
            \/ /\ dram' \in DramRegions
               /\ IF \/ arg_start >= U32_SPAN
                     \/ U32(arg_start + arg_length) < arg_start
                     \/ arg_start < dram'.start
                     \/ arg_start + arg_length > U32(dram'.start + dram'.length)
                  THEN /\ Log("sdmc_get_dram")
                       /\ rc' = EXIT_FAILURE /\ pc' = "run:cleanup_soc"
                       /\ UNCHANGED scu
                  ELSE \/ /\ Log("scu_get: failed")
                          /\ rc' = EXIT_FAILURE /\ pc' = "run:cleanup_soc"
                          /\ UNCHANGED scu
                       \/ /\ Log("scu_get")
                          /\ scu' = "held"
                          /\ rc' = 0
                          /\ pc' = "run:step"
    /\ UNCHANGED << regv, exit_status, retv, argv, hostv, soc, devv, arg_start,
                    arg_length, vram, dmv, prv, sfcv, generation, step, connection >>

\* mutant: the result of the firmware load is not looked at
cmd_coprocessor_run_step_load_unchecked ==
    /\ pc = "run:step"
    /\ Log(CoprocSteps[step])
    /\ \E r \in bus_rc \cup {arg_length} :
       \E n \in IF CoprocSteps[step] = "soc_siphon_in"
                THEN Progress(r, arg_length) ELSE {0} :
          /\ (r > 0) => (CoprocSteps[step] = "soc_siphon_in")
          /\ xfer' = IF CoprocSteps[step] = "soc_siphon_in"
                     THEN Append(xfer, [op |-> "in", start |-> arg_start,
                                        length |-> arg_length, rc |-> r,
                                        sent |-> n])
                     ELSE xfer
          /\ IF r < 0 /\ CoprocSteps[step] # "soc_siphon_in"
             THEN rc' = EXIT_FAILURE /\ pc' = "run:cleanup_scu" /\ UNCHANGED step
             ELSE IF step = Len(CoprocSteps)
             THEN rc' = EXIT_SUCCESS /\ pc' = "run:cleanup_scu" /\ UNCHANGED step
             ELSE /\ rc' = IF CoprocSteps[step] \in
                                 {"scu_writel CTRL 0", "scu_writel CTRL RESET_ASSERT"}
                           THEN r ELSE rc
                  /\ pc' = "run:step"
                  /\ step' = step + 1
    /\ UNCHANGED << regv, exit_status, retv, argv, hostv, soc, chip, wp, ramv, dmv,
                    prv, sfcv, generation, scu, connection >>

\* one step of the bring-up sequence; the first that fails ends it
cmd_coprocessor_run_step ==
    /\ pc = "run:step"
    /\ Log(CoprocSteps[step])
    /\ \E r \in bus_rc \cup {arg_length} :
       \E n \in IF CoprocSteps[step] = "soc_siphon_in"
                THEN Progress(r, arg_length) ELSE {0} :
          /\ (r > 0) => (CoprocSteps[step] = "soc_siphon_in")
          /\ xfer' = IF CoprocSteps[step] = "soc_siphon_in"
                     THEN Append(xfer, [op |-> "in", start |-> arg_start,
                                        length |-> arg_length, rc |-> r,
                                        sent |-> n])
                     ELSE xfer
          /\ IF r < 0
             THEN rc' = EXIT_FAILURE /\ pc' = "run:cleanup_scu" /\ UNCHANGED step
             ELSE IF step = Len(CoprocSteps)
             THEN rc' = EXIT_SUCCESS /\ pc' = "run:cleanup_scu" /\ UNCHANGED step
             ELSE /\ rc' = IF CoprocSteps[step] \in
                                 {"scu_writel CTRL 0", "scu_writel CTRL RESET_ASSERT"}
                           THEN r ELSE rc
                  /\ pc' = "run:step"
                  /\ step' = step + 1
    /\ UNCHANGED << regv, exit_status, retv, argv, hostv, soc, chip, wp, ramv, dmv,
                    prv, sfcv, generation, scu, connection >>

\* mutant: the cleanup_scu label goes on without scu_put
cmd_coprocessor_run_cleanup_scu_skipped ==
    /\ pc = "run:cleanup_scu"
    /\ Log("cleanup_scu")
    /\ scu' = scu
    /\ pc' = "run:cleanup_soc"
    /\ UNCHANGED << regv, exit_status, rc, retv, argv, hostv, soc, devv, ramv, dmv,
                    prv, sfcv, generation, step, connection >>

cmd_coprocessor_run_cleanup_scu ==
    /\ pc = "run:cleanup_scu"
    /\ Log("scu_put")
    /\ scu' = "put"
    /\ pc' = "run:cleanup_soc"
    /\ UNCHANGED << regv, exit_status, rc, retv, argv, hostv, soc, devv, ramv, dmv,
                    prv, sfcv, generation, step, connection >>

cmd_coprocessor_run_cleanup_soc ==
    /\ pc = "run:cleanup_soc"
    /\ Log("soc_destroy")
    /\ soc' = "destroyed"
    /\ pc' = "run:cleanup_host"
    /\ UNCHANGED << regv, exit_status, rc, retv, argv, hostv, devv, cmdv >>

cmd_coprocessor_run_cleanup_host ==
    /\ pc = "run:cleanup_host"
    /\ Log("host_destroy")
    /\ host' = "destroyed"
    /\ Return(rc, "cmd_coprocessor:resume")
    /\ UNCHANGED << regv, exit_status, rc, ret, argv, ahb, probed, host_argv,
                    negotiated, can_open, host_rc, soc, devv, cmdv >>

\* cmd_coprocessor_stop: argp_stop has no parser function, so argp_parse takes
\* no positional word: any word after "stop" ends in "Too many arguments"
cmd_coprocessor_stop ==
    /\ pc = "cmd_coprocessor_stop"
    /\ \E fv \in FieldVectors :
          /\ sub_argv' = << "culvert coprocessor stop" >> \o fv
          /\ nfields' = Len(fv)
          /\ IF fv # << >>
             THEN Log("argp: Too many arguments") /\ Exit(EX_USAGE)
             ELSE pc' = "stop:host_init" /\ UNCHANGED << log, exit_status >>
    /\ UNCHANGED << regv, rc, retv, cmd, key_arg_count, hostv, soc, devv, cmdv >>

\* host_init(host, stop_cmd.argc, stop_cmd.argv)
cmd_coprocessor_stop_host_init ==
    /\ pc = "stop:host_init"
    /\ Log("host_init")
    /\ CallHostInit(sub_argv)
    /\ rc' = host_rc'
    /\ IF rc' < 0
       THEN Return(EXIT_FAILURE, "cmd_coprocessor:resume")
       ELSE pc' = "stop:host_get_ahb" /\ UNCHANGED << op_rc, op_done >>
    /\ UNCHANGED << regv, exit_status, ret, argv, soc, devv, cmdv >>

cmd_coprocessor_stop_host_get_ahb ==
    /\ pc = "stop:host_get_ahb"
    /\ \E a \in host_get_ahb(ahb) :
          IF a = "none"
          THEN /\ Log("host_get_ahb: NULL")
               /\ rc' = EXIT_FAILURE /\ pc' = "stop:cleanup_host"
          ELSE /\ Log("host_get_ahb")
               /\ rc' = rc /\ pc' = "stop:soc_probe"
    /\ UNCHANGED << regv, exit_status, retv, argv, hostv, soc, devv, cmdv >>

cmd_coprocessor_stop_soc_probe ==
    /\ pc = "stop:soc_probe"
    /\ \E r \in soc_probe_rc :
          IF r < 0
          THEN /\ Log("soc_probe: failed")
               /\ rc' = EXIT_FAILURE
               /\ pc' = "stop:cleanup_host"
               /\ UNCHANGED << soc, generation >>
          ELSE /\ Log("soc_probe")
               /\ rc' = r
               /\ soc' = "alive"
               /\ generation' \in Generations
               /\ pc' = "stop:scu"
    /\ UNCHANGED << regv, exit_status, retv, argv, hostv, devv, ramv, dmv, prv,
                    sfcv, scu, step, connection >>

\* the generation check, scu_get, the write of CTRL = 0 and scu_put
cmd_coprocessor_stop_scu ==
    /\ pc = "stop:scu"
    /\ IF generation # "ast_g6"
       THEN rc' = EXIT_FAILURE /\ UNCHANGED << log, scu >>
       ELSE \/ /\ Log("scu_get: failed")
               /\ rc' = EXIT_FAILURE
               /\ UNCHANGED scu
            \/ /\ \E r \in bus_rc :
                     rc' = IF r < 0 THEN EXIT_FAILURE ELSE r
               /\ log' = log \o << "scu_get", "scu_writel CTRL 0", "scu_put" >>
               /\ scu' = "put"
    /\ pc' = "stop:cleanup_soc"
    /\ UNCHANGED << regv, exit_status, retv, argv, hostv, soc, devv, ramv, dmv, prv,
                    sfcv, generation, step, connection >>

cmd_coprocessor_stop_cleanup_soc ==
    /\ pc = "stop:cleanup_soc"
    /\ Log("soc_destroy")
    /\ soc' = "destroyed"
    /\ pc' = "stop:cleanup_host"
    /\ UNCHANGED << regv, exit_status, rc, retv, argv, hostv, devv, cmdv >>

cmd_coprocessor_stop_cleanup_host ==
    /\ pc = "stop:cleanup_host"
    /\ Log("host_destroy")
    /\ host' = "destroyed"
    /\ Return(rc, "cmd_coprocessor:resume")
    /\ UNCHANGED << regv, exit_status, rc, ret, argv, ahb, probed, host_argv,
                    negotiated, can_open, host_rc, soc, devv, cmdv >>

Next ==
    \/ parse_opt_s
    \/ cmd_console
    \/ cmd_console_host_init
    \/ parse_opt_l
    \/ parse_opt_ARGS
    \/ parse_opt_exit
    \/ parse_opt_END
    \/ cmd_read
    \/ cmd_read_return
    \/ cmd_read_firmware
    \/ cmd_read_firmware_host_init
    \/ cmd_read_firmware_host_get_ahb
    \/ cmd_read_firmware_soc_probe
    \/ cmd_read_firmware_sfc_get_by_name
    \/ cmd_read_firmware_flash_init
    \/ cmd_read_firmware_wp_save
    \/ cmd_read_firmware_sfc_get_flash
    \/ cmd_read_firmware_siphon
    \/ cmd_read_firmware_wp_restore
    \/ cmd_read_firmware_cleanup_chip
    \/ cmd_read_firmware_cleanup_soc
    \/ cmd_read_firmware_cleanup_host
    \/ cmd_read_ram
    \/ cmd_read_ram_host_init
    \/ cmd_read_ram_host_get_ahb
    \/ cmd_read_ram_soc_probe
    \/ cmd_read_ram_sdmc_get
    \/ cmd_read_ram_sdmc_get_dram
    \/ cmd_read_ram_range
    \/ cmd_read_ram_siphon
    \/ cmd_read_ram_cleanup_soc
    \/ cmd_read_ram_cleanup_host
    \/ cmd_devmem
    \/ cmd_devmem_init
    \/ cmd_devmem_access
    \/ cmd_devmem_destroy
    \/ cmd_probe
    \/ cmd_probe_host_init
    \/ cmd_probe_host_get_ahb
    \/ cmd_probe_soc_probe
    \/ cmd_probe_bridge_controllers
    \/ cmd_probe_cleanup_soc
    \/ cmd_probe_cleanup_host
    \/ cmd_probe_done
    \/ cmd_sfc
    \/ cmd_sfc_host_init
    \/ cmd_sfc_host_get_ahb
    \/ cmd_sfc_soc_probe
    \/ cmd_sfc_sfc_get_by_name
    \/ cmd_sfc_flash_init
    \/ cmd_sfc_read
    \/ cmd_sfc_write
    \/ cmd_sfc_write_loop
    \/ cmd_sfc_erase
    \/ cmd_sfc_cleanup_flash
    \/ cmd_sfc_cleanup_soc
    \/ cmd_sfc_cleanup_host
    \/ cmd_coprocessor
    \/ cmd_coprocessor_return
    \/ cmd_coprocessor_run
    \/ cmd_coprocessor_run_host_init
    \/ cmd_coprocessor_run_host_get_ahb
    \/ cmd_coprocessor_run_soc_probe
    \/ cmd_coprocessor_run_checks
    \/ cmd_coprocessor_run_step
    \/ cmd_coprocessor_run_cleanup_scu
    \/ cmd_coprocessor_run_cleanup_soc
    \/ cmd_coprocessor_run_cleanup_host
    \/ cmd_coprocessor_stop
    \/ cmd_coprocessor_stop_host_init
    \/ cmd_coprocessor_stop_host_get_ahb
    \/ cmd_coprocessor_stop_soc_probe
    \/ cmd_coprocessor_stop_scu
    \/ cmd_coprocessor_stop_cleanup_soc
    \/ cmd_coprocessor_stop_cleanup_host

Spec == Init /\ [][Next]_vars

\* ---- a bulk transfer out of a region and back in ----
\* every variable of the program; a bulk transfer leaves them alone
progv == << pc, registry, can_open, nskip, listed, log, exit_status, rc, op_rc,
            op_done, ret, cmd, sub_argv, nfields, host_argv, host, ahb, probed,
            host_rc, soc, negotiated, mut_after_neg, chip, wp, xfer, skip_args,
            key_arg_count, arg_start, arg_length, dram, vram, devmem, am_root, mem,
            requirement, list_ifaces, discovered, sfc_op, stdin_left, generation,
            scu, step, connection >>

\* any bus contents, any range, in the region or not
InitSiphon ==
    /\ pc = "siphon"
    /\ ProgInit
    /\ \E b \in [1..MaxBus -> Bytes], a \in 0..MaxBus, l \in 0..MaxBus :
          sip = [SipIdle EXCEPT !.pc = "out_start", !.bus = b, !.orig = b,
                                !.addr = a, !.len = l]

\* siphon_out(addr, length, sink): the range is checked before the first byte
siphon_out_start ==
    /\ sip.pc = "out_start"
    /\ IF InRange(sip.addr, sip.len)
       THEN sip' = [sip EXCEPT !.pc = "out"]
       ELSE sip' = [sip EXCEPT !.pc = "end",
                               !.out_ret = [status |-> "OutOfRange", count |-> 0]]
    /\ UNCHANGED progv

\* one window goes to the sink, or the transport fails and the transfer stops
siphon_out_step ==
    /\ sip.pc = "out"
    /\ sip.done < sip.len
    /\ \/ LET w == siphon_out_window(sip.bus, sip.addr, sip.done, sip.len) IN
          sip' = [sip EXCEPT !.out = sip.out \o w, !.done = sip.done + Len(w)]
       \/ sip' = [sip EXCEPT !.pc = "end",
                             !.out_ret = [status |-> "TransportError",
                                          count |-> sip.done]]
    /\ UNCHANGED progv

siphon_out_done ==
    /\ sip.pc = "out"
    /\ sip.done = sip.len
    /\ sip' = [sip EXCEPT !.pc = "feed", !.done = 0,
                          !.out_ret = [status |-> "ok", count |-> sip.len]]
    /\ UNCHANGED progv

\* siphon_in(addr, length, source): the source is what was captured, or any
\* stream of up to length bytes
siphon_in_start ==
    /\ sip.pc = "feed"
    /\ \E src \in {sip.out} \cup Streams(sip.len) :
          sip' = [sip EXCEPT !.pc = "in", !.inp = src, !.fed = src]
    /\ UNCHANGED progv

\* mutant: a window is written back last byte first
siphon_in_step_reversed ==
    /\ sip.pc = "in"
    /\ sip.done < sip.len
    /\ LET n == Min(Min(SiphonWindow, sip.len - sip.done), Len(sip.inp))
           chunk == [i \in 1..n |-> sip.inp[n + 1 - i]]
       IN IF n = 0
          THEN sip' = [sip EXCEPT !.pc = "end",
                                  !.in_ret = [status |-> "ShortInput",
                                              count |-> sip.done]]
          ELSE \/ sip' = [sip EXCEPT
                            !.bus = siphon_in_window(sip.bus, sip.addr, sip.done, chunk),
                            !.inp = SubSeq(sip.inp, n + 1, Len(sip.inp)),
                            !.done = sip.done + n]
               \/ sip' = [sip EXCEPT !.pc = "end",
                                     !.in_ret = [status |-> "TransportError",
                                                 count |-> sip.done]]
    /\ UNCHANGED progv

\* mutant: the end of the source is taken for the end of the transfer
siphon_in_step_short_is_ok ==
    /\ sip.pc = "in"
    /\ sip.done < sip.len
    /\ LET n == Min(Min(SiphonWindow, sip.len - sip.done), Len(sip.inp))
           chunk == SubSeq(sip.inp, 1, n)
       IN IF n = 0
          THEN sip' = [sip EXCEPT !.pc = "end",
                                  !.in_ret = [status |-> "ok", count |-> sip.len]]
          ELSE \/ sip' = [sip EXCEPT
                            !.bus = siphon_in_window(sip.bus, sip.addr, sip.done, chunk),
                            !.inp = SubSeq(sip.inp, n + 1, Len(sip.inp)),
                            !.done = sip.done + n]
               \/ sip' = [sip EXCEPT !.pc = "end",
                                     !.in_ret = [status |-> "TransportError",
                                                 count |-> sip.done]]
    /\ UNCHANGED progv

\* one read of the source: nothing left is a short input; else the bytes read
\* are written behind those already written, or the transport fails
siphon_in_step ==
    /\ sip.pc = "in"
    /\ sip.done < sip.len
    /\ LET n == Min(Min(SiphonWindow, sip.len - sip.done), Len(sip.inp))
           chunk == SubSeq(sip.inp, 1, n)
       IN IF n = 0
          THEN sip' = [sip EXCEPT !.pc = "end",
                                  !.in_ret = [status |-> "ShortInput",
                                              count |-> sip.done]]
          ELSE \/ sip' = [sip EXCEPT
                            !.bus = siphon_in_window(sip.bus, sip.addr, sip.done, chunk),
                            !.inp = SubSeq(sip.inp, n + 1, Len(sip.inp)),
                            !.done = sip.done + n]
               \/ sip' = [sip EXCEPT !.pc = "end",
                                     !.in_ret = [status |-> "TransportError",
                                                 count |-> sip.done]]
    /\ UNCHANGED progv

siphon_in_done ==
    /\ sip.pc = "in"
    /\ sip.done = sip.len
    /\ sip' = [sip EXCEPT !.pc = "end",
                          !.in_ret = [status |-> "ok", count |-> sip.len]]
    /\ UNCHANGED progv

NextSiphon ==
    \/ siphon_out_start
    \/ siphon_out_step
    \/ siphon_out_done
    \/ siphon_in_start
    \/ siphon_in_step
    \/ siphon_in_done

SpecSiphon == InitSiphon /\ [][NextSiphon]_vars

\* ---- the console command, past host_init ----
\* the runs whose command word is console
parse_opt_ARGS_console == parse_opt_ARGS /\ cmd' = "console"

NextConsole ==
    \/ parse_opt_s
    \/ parse_opt_l
    \/ parse_opt_ARGS_console
    \/ cmd_console
    \/ cmd_console_host_init_any
    \/ cmd_console_step
    \/ cmd_console_suart_cleanup
    \/ cmd_console_mux_restore
    \/ cmd_console_soc_cleanup
    \/ cmd_console_host_cleanup
    \/ parse_opt_exit

SpecConsole == Init /\ [][NextConsole]_vars

\* ---- the claims ----
Range(s) == { s[i] : i \in 1..Len(s) }
Enabled(reg) == { reg[i].name : i \in { k \in 1..Len(reg) : reg[k].enabled } }
Priority(name) == bridge_drivers[IndexOf(bridge_drivers, name)].priority
\* host_init ran in implicit mode: it was handed no connection field
Implicit == negotiated /\ host_argv = << >>

\* C1: a driver that a -s option named, or whose enabled flag is false, is
\* never probed by an implicit negotiation and never becomes its handle,
\* whether or not it could open and whether or not the others fail.
C1_DisabledNeverProbed ==
    \A i \in 1..Len(registry) :
        (registry[i].name \in Range(skip_args) \/ ~registry[i].enabled)
            => /\ registry[i].name \notin Range(probed)
               /\ Implicit => ahb # registry[i].name

\* a disabled driver could have opened, every enabled one was probed and failed
C1_Witness ==
    /\ Implicit
    /\ Range(skip_args) \cap can_open # {}
    /\ probed # << >>
    /\ host_rc = 0 - ENODEV

\* C2: host_init is entered only with 1 or 5 connection fields from the user
\* (none at all leaves the negotiator in implicit mode); 2, 3, 4, 6 or more
\* are turned away before it is called.
C2_FieldCount == negotiated => nfields \in {0, 1, 5}

\* the words the user gave after -S and -L of read ram, 0 when not given
UserValue(opt) ==
    IF \E i \in 1..(Len(sub_argv) - 1) : sub_argv[i] = opt
    THEN ValueOf[sub_argv[(CHOOSE i \in 1..(Len(sub_argv) - 1) : sub_argv[i] = opt) + 1]]
    ELSE 0
UserGaveRange == \E i \in 1..Len(sub_argv) : sub_argv[i] \in {"-S", "-L"}
Contained(start, length, region) ==
    /\ region.start <= start
    /\ start + length <= region.start + region.length

\* C3: read ram transfers nothing when the user gave -S and/or -L and the
\* range they describe is not inside the probed DRAM region.
C3_RangeChecked ==
    (cmd = "read ram" /\ xfer # << >> /\ UserGaveRange)
        => Contained(UserValue("-S"), UserValue("-L"), dram)

\* C4: when the process ends, no transport is left open.
C4_Released == pc = "exited" => (host # "open" /\ devmem # "open")

\* C5: a read firmware / read ram that failed ends the process with a
\* failing status.
C5_ReadFailurePropagates ==
    (pc = "exited" /\ cmd \in {"read firmware", "read ram"} /\ op_done /\ op_rc # 0)
        => exit_status # EXIT_SUCCESS

\* C6: a coprocessor run / stop whose every step succeeded ends the process
\* with the success status.
C6_CoprocessorSuccess ==
    (pc = "exited" /\ cmd \in {"coprocessor run", "coprocessor stop"}
                   /\ op_done /\ op_rc = EXIT_SUCCESS)
        => exit_status = EXIT_SUCCESS

\* C7: once -s has named a driver the registry does not have, the process has
\* ended with the failure status right after reporting the error, no command
\* was dispatched, nothing was negotiated or transferred, and the enabled
\* flags are those the earlier, valid -s options left.
C7_UnknownDriver ==
    (\E i \in 1..Len(skip_args) : skip_args[i] \notin DriverNames)
        => /\ pc = "exited"
           /\ exit_status = EXIT_FAILURE
           /\ log[Len(log)] = "stderr: not a recognized bridge name"
           /\ cmd = "none"
           /\ ~negotiated
           /\ xfer = << >>
           /\ Enabled(registry) = DriverNames \ Range(skip_args)

\* a valid -s, then one with an unknown name
C7_Witness ==
    /\ Len(skip_args) = 2
    /\ skip_args[1] \in DriverNames
    /\ skip_args[2] \notin DriverNames
    /\ pc = "exited"

\* C8: once a command has been dispatched or host_init entered, no step
\* changes the registry or parses another -s.
C8_RegistryFrozen ==
    [][(cmd # "none" \/ negotiated)
          => (registry' = registry /\ skip_args' = skip_args /\ ~mut_after_neg')]_vars

\* a run that disabled a driver, negotiated and ended
C8_Witness == negotiated /\ skip_args # << >> /\ pc = "exited"

\* C9: after -s jtag the listing still has every driver at its place, jtag
\* marked disabled; the registry keeps names, priorities and order; and an
\* implicit negotiation that only jtag could serve fails with no handle.
C9_JtagDisabled ==
    /\ Len(registry) = Len(bridge_drivers)
    /\ \A i \in 1..Len(registry) :
          /\ registry[i].name = bridge_drivers[i].name
          /\ registry[i].priority = bridge_drivers[i].priority
    /\ listed # << >> =>
          /\ Len(listed) = Len(bridge_drivers)
          /\ \A i \in 1..Len(listed) :
                /\ listed[i].name = bridge_drivers[i].name
                /\ listed[i].disabled <=> (listed[i].name \in Range(skip_args))
    /\ (Implicit /\ "jtag" \in Range(skip_args) /\ can_open = {"jtag"})
          => (host_rc = 0 - ENODEV /\ ahb = "none" /\ host = "unopened")

\* jtag was disabled, then the drivers were listed
C9_Witness ==
    /\ "jtag" \in Range(skip_args)
    /\ \E i \in 1..Len(listed) : listed[i].name = "jtag" /\ listed[i].disabled

\* C10: an implicit negotiation ends with the handle of the enabled driver of
\* highest priority among those that can open, having probed exactly the
\* enabled drivers of higher or equal priority, highest first; it fails, with
\* every enabled driver probed, only when none of them can open.
C10_FirstInPriorityOrder ==
    Implicit =>
        LET able == Enabled(registry) \cap can_open IN
        /\ \A i \in 1..(Len(probed) - 1) : Priority(probed[i]) > Priority(probed[i + 1])
        /\ IF able = {}
           THEN /\ host_rc = 0 - ENODEV
                /\ ahb = "none"
                /\ Range(probed) = Enabled(registry)
           ELSE /\ host_rc = 0
                /\ ahb \in able
                /\ \A d \in able : Priority(d) <= Priority(ahb)
                /\ Range(probed) =
                      { d \in Enabled(registry) : Priority(d) >= Priority(ahb) }

\* every driver enabled and able to open: the priority 10 driver serves
C10_Witness ==
    /\ Implicit
    /\ can_open = DriverNames
    /\ Enabled(registry) = DriverNames
    /\ ahb = "devmem"
    /\ probed = << "devmem" >>

UserFields == SelectSeq(sub_argv, IsField)
\* neither interface-only nor all five fields with a password
Malformed ==
    \/ Len(UserFields) \in 2..4
    \/ Len(UserFields) = 5 /\ UserFields[5] = ""

\* C12: five connection fields with an empty password, or an interface with
\* one to three more fields, are turned away with a validation error before
\* any I/O: no transport is opened, no driver probed, no chip probed, nothing
\* transferred.
C12_MalformedRejected ==
    Malformed =>
        /\ host = "unopened"
        /\ probed = << >>
        /\ soc = "unprobed"
        /\ xfer = << >>
        /\ negotiated => host_rc = 0 - EINVAL

Count(e) == Cardinality({ i \in 1..Len(log) : log[i] = e })
\* one step of teardown keeps the order device handles, chip, bus handle
TeardownStep ==
    /\ (soc' = "destroyed" /\ soc # "destroyed")
          => (soc = "alive" /\ chip # "alive" /\ scu # "held" /\ host = "open")
    /\ (host' = "destroyed" /\ host # "destroyed") => soc # "alive"
    /\ soc = "destroyed"
          => (soc' = soc /\ chip' = chip /\ scu' = scu /\ wp' = wp /\ xfer' = xfer)
\* what is left when a command is over
TeardownDone ==
    /\ Count("soc_destroy") <= 1
    /\ Count("soc_destroy") = 1 <=> soc = "destroyed"
    /\ (pc = "exited" \/ op_done) => (soc # "alive" /\ chip # "alive" /\ scu # "held")

ProbeFailed == \E i \in 1..Len(log) : log[i] = "soc_probe: failed"

DevmemAccessed ==
    /\ cmd = "devmem"
    /\ Len(sub_argv) >= 3
    /\ \E i \in 1..Len(log) : log[i] \in {"ast_ahb_access", "perror: ast_ahb_access"}

\* C15: read32 / write32 succeed only at an address a of the region,
\* start <= a < start + length; at any other address they fail and the bus
\* keeps its contents; a write changes the addressed word only.
C15_ScalarAccessInRegion ==
    /\ DevmemAccessed =>
          LET a == ValueOf[sub_argv[3]] IN
          /\ Count("ast_ahb_access") = 1
                => (DevmemWindow.start <= a /\ a < DevmemWindow.start + DevmemWindow.length)
          /\ ~InRegion(a, DevmemWindow)
                => (rc = 0 - EINVAL /\ mem = MemInit /\ pc = "exited")
          /\ \A b \in DOMAIN mem : mem[b] # MemInit[b] => (b = a /\ sub_argv[2] = "write")
    /\ ~DevmemAccessed => mem = MemInit

\* a read at the first address past the window was refused
C15_Witness ==
    /\ DevmemAccessed
    /\ sub_argv[2] = "read"
    /\ ValueOf[sub_argv[3]] = DevmemWindow.start + DevmemWindow.length
    /\ rc = 0 - EINVAL
    /\ pc = "exited"

\* the cells of the range of the transfer
InSipRange(i) == sip.addr < i /\ i <= sip.addr + sip.len

\* C16: a siphon_out of a valid range, then a siphon_in of the captured bytes
\* to the same address, both complete, leave every cell of the range as it
\* was; no transfer ever changes a cell outside the range.
C16_RoundTrip ==
    /\ (sip.pc = "end" /\ sip.out_ret.status = "ok" /\ sip.in_ret.status = "ok"
                       /\ sip.fed = sip.out)
          => (sip.bus = sip.orig /\ sip.out = SubSeq(sip.orig, sip.addr + 1,
                                                     sip.addr + sip.len))
    /\ sip.pc # "idle"
          => \A i \in 1..MaxBus : ~InSipRange(i) => sip.bus[i] = sip.orig[i]

\* a round trip over more than one window of a bus that is not all one value
C16_Witness ==
    /\ sip.pc = "end"
    /\ sip.out_ret.status = "ok"
    /\ sip.in_ret.status = "ok"
    /\ sip.fed = sip.out
    /\ sip.len > SiphonWindow
    /\ \E i, j \in 1..Len(sip.out) : sip.out[i] # sip.out[j]

\* C17: a siphon_in whose source ends after n < length bytes stops with a
\* short-input result, not a transport error, that counts n; the n bytes are
\* on the bus at addr .. addr + n - 1 and no other cell has changed.
C17_ShortInput ==
    /\ (sip.pc = "end" /\ sip.out_ret.status = "ok" /\ Len(sip.fed) < sip.len
                       /\ sip.in_ret.status # "TransportError")
          => /\ sip.in_ret = [status |-> "ShortInput", count |-> Len(sip.fed)]
             /\ \A i \in 1..MaxBus :
                   sip.bus[i] = IF sip.addr < i /\ i <= sip.addr + Len(sip.fed)
                                THEN sip.fed[i - sip.addr]
                                ELSE sip.orig[i]
    /\ sip.in_ret.status = "ShortInput" => Len(sip.fed) < sip.len

\* a source that ends in the middle of the second window, with bytes the bus
\* did not hold
C17_Witness ==
    /\ sip.in_ret.status = "ShortInput"
    /\ sip.in_ret.count = SiphonWindow + 1
    /\ sip.bus # sip.orig

\* the bulk transfers the commands issued
Siphons == { i \in 1..Len(xfer) : xfer[i].op \in {"out", "in"} }

\* C18: a bulk transfer that fails in the middle gives its caller the error
\* and the count of bytes already transferred.
C18_FailureReportsCount ==
    \A i \in Siphons :
        xfer[i].rc < 0 => ReturnedCount(xfer[i].rc) = xfer[i].sent

\* the word the user gave after -r, "" without -r
RequiredWord ==
    IF \E i \in 1..(Len(sub_argv) - 1) : sub_argv[i] = "-r"
    THEN sub_argv[1 + CHOOSE i \in 1..(Len(sub_argv) - 1) : sub_argv[i] = "-r"]
    ELSE ""

\* a probe run, not in list mode, whose probing found a level, has ended
ProbeVerdict ==
    /\ pc = "exited"
    /\ cmd = "probe"
    /\ "-l" \notin Range(sub_argv)
    /\ discovered \in {bm_permissive, bm_restricted, bm_disabled}

\* C19: with permissive < restricted < disabled, a probe run that is not in
\* list mode and whose probing succeeded exits with success iff the required
\* level is at most the discovered one: always without -r, for integrity iff
\* restricted or disabled was found, for confidentiality iff disabled was.
C19_ProbeExit ==
    /\ bm_permissive < bm_restricted /\ bm_restricted < bm_disabled
    /\ ProbeVerdict =>
          /\ RequiredWord \in {"", "integrity", "confidentiality"}
          /\ RequiredWord = "" => exit_status = EXIT_SUCCESS
          /\ RequiredWord = "integrity" =>
                (exit_status = EXIT_SUCCESS
                    <=> discovered \in {bm_restricted, bm_disabled})
          /\ RequiredWord = "confidentiality" =>
                (exit_status = EXIT_SUCCESS <=> discovered = bm_disabled)
          /\ exit_status \in {EXIT_SUCCESS, EXIT_FAILURE}

\* -r integrity met exactly: a restricted bridge was found
C19_Witness ==
    /\ ProbeVerdict
    /\ RequiredWord = "integrity"
    /\ discovered = bm_restricted
    /\ exit_status = EXIT_SUCCESS

\* devmem_init failed: a negative rc and a transport that was never opened
DevmemInitFailed == cmd = "devmem" /\ rc < 0 /\ devmem = "unopened"

\* C20: in cmd_devmem every devmem_init failure ends the command with a
\* failing exit and no bus access; the privilege hint is printed exactly when
\* the code is EACCES or EPERM and the process is not root, the generic error
\* otherwise.
C20_DevmemInitFailure ==
    DevmemInitFailed =>
        /\ pc = "exited"
        /\ exit_status = EXIT_FAILURE
        /\ mem = MemInit
        /\ Range(log) \cap {"ast_ahb_access", "perror: ast_ahb_access",
                            "devmem_init", "devmem_destroy"} = {}
        /\ ("priv_print_unprivileged" \in Range(log))
              <=> (rc \in {0 - EACCES, 0 - EPERM} /\ ~am_root)
        /\ ("perror: devmem_init" \in Range(log))
              <=> ~(rc \in {0 - EACCES, 0 - EPERM} /\ ~am_root)

\* a write refused with EPERM to a user who is not root
C20_Witness ==
    /\ DevmemInitFailed
    /\ rc = 0 - EPERM
    /\ ~am_root
    /\ sub_argv[2] = "write"
    /\ "priv_print_unprivileged" \in Range(log)

\* the entries of the log that touch the coprocessor: register writes and
\* the firmware load
CoprocWrites == { i \in 1..Len(log) : log[i] \in Range(CoprocSteps) \ {"usleep"} }

\* C21: in coprocessor run no SCU register is written and no firmware is
\* loaded unless the chip is an ast_g6, mem_size is exactly 32 MiB, mem_base
\* fits in 32 bits, mem_base + mem_size does not wrap, and the range lies
\* inside the probed DRAM region.
C21_RunPreconditions ==
    (cmd = "coprocessor run" /\ CoprocWrites # {}) =>
        /\ generation = "ast_g6"
        /\ arg_length = COPROC_TOTAL_MEM_SIZE
        /\ arg_start < U32_SPAN
        /\ arg_start + arg_length <= U32_SPAN
        /\ dram.start <= arg_start
        /\ arg_start + arg_length <= dram.start + dram.length

\* host_init succeeded and host_get_ahb gave no handle
NoHandle == "host_get_ahb: NULL" \in Range(log)

\* where the run is between the NULL handle and host_destroy
AtCleanupHost ==
    pc \in {"fw:cleanup_host", "ram:cleanup_host", "probe:cleanup_host",
            "sfc:cleanup_host", "run:cleanup_host", "stop:cleanup_host"}

HandleMissing ==
    Range(log) \cap {"sfc_get_by_name: NULL", "malloc: failed", "clk_get: failed",
                     "uart_mux_get: failed"} # {}

\* C23: a run of sfc or console in which a required controller handle was
\* not obtained after a successful soc_probe, or a buffer allocation failed,
\* never ends with a success exit status.
C23_MissingHandleFails ==
    (cmd \in {"sfc", "console"} /\ HandleMissing /\ pc = "exited")
        => exit_status # EXIT_SUCCESS

\* C24: the argument vector a command hands to host_init holds connection
\* fields the user supplied and nothing else, neither the synthesized
\* sub-command name nor the command's own positionals; console and
\* coprocessor stop without connection arguments call it with a count of 0.
C24_HostInitArguments ==
    negotiated =>
        /\ \A i \in 1..Len(host_argv) :
              IsField(host_argv[i]) /\ host_argv[i] \in Range(Tail(sub_argv))
        /\ (cmd \in {"console", "coprocessor stop"} /\ UserFields = << >>)
              => Len(host_argv) = 0

\* the bring-up steps taken so far, in the order they were taken
StepsTaken == SelectSeq(log, LAMBDA e : e \in Range(CoprocSteps))

\* the steps taken are the first ones of the sequence, in its order; the
\* next one is taken only after all before it succeeded; a run that left
\* the sequence early left it with a failure
StepsInOrder ==
    cmd = "coprocessor run" =>
        /\ StepsTaken = SubSeq(CoprocSteps, 1, Len(StepsTaken))
        /\ pc = "run:step" => Len(StepsTaken) = step - 1
        /\ \A i \in 1..Len(xfer) :
              xfer[i].rc < 0 => /\ Len(StepsTaken) = 3
                                /\ pc # "run:step"
                                /\ rc = EXIT_FAILURE
        /\ (StepsTaken # << >> /\ pc # "run:step")
              => /\ Len(StepsTaken) = step
                 /\ Len(StepsTaken) < Len(CoprocSteps) => rc = EXIT_FAILURE

\* C25: in coprocessor run the bring-up steps occur only in the order
\* CTRL=0, CTRL=RESET_ASSERT, firmware load, MEM_BASE, IMEM_LIMIT, DMEM_LIMIT,
\* CACHE_RANGE, CACHE_FUNC, CTRL=0, CTRL=EN, each only after all earlier ones
\* succeeded; after a failed step no later step is taken.
C25_BringUpOrder ==
    /\ [] StepsInOrder
    /\ [][(cmd = "coprocessor run" /\ StepsTaken' # StepsTaken)
            => (pc = "run:step" /\ rc # EXIT_FAILURE
                   /\ StepsTaken' = Append(StepsTaken, CoprocSteps[step]))]_vars

\* the firmware load failed and the run is over
C25_Witness ==
    /\ cmd = "coprocessor run"
    /\ pc = "exited"
    /\ xfer # << >> /\ xfer[1].rc < 0
    /\ StepsTaken = SubSeq(CoprocSteps, 1, 3)

\* C26: in read firmware, wherever sfc_write_protect_save succeeded,
\* sfc_write_protect_restore is called before flash_destroy and soc_destroy,
\* so the write-protect state is never left as the command changed it.
C26_WriteProtectRestored ==
    (cmd = "read firmware" /\ (chip = "destroyed" \/ soc = "destroyed"))
        => wp # "saved"

\* positions of the log
LogAt(e) == { i \in 1..Len(log) : log[i] = e }

\* C27: in cmd_console, wherever uart_mux_route succeeded, uart_mux_restore
\* is called after the last routing change and before soc_destroy, whatever
\* fails later; suart_destroy is called if and only if suart_init_defaults
\* succeeded.
C27_ConsoleCleanup ==
    cmd = "console" =>
        /\ (LogAt("uart_mux_route") # {} /\ soc = "destroyed") =>
              \E j \in LogAt("uart_mux_restore") :
                 /\ \A d \in LogAt("soc_destroy") : j < d
                 /\ \A k \in LogAt("uart_mux_route") \cup LogAt("uart_mux_connect") :
                       k < j
        /\ LogAt("suart_destroy") # {} => LogAt("suart_init_defaults") # {}
        /\ (LogAt("suart_init_defaults") # {} /\ soc = "destroyed")
              => Cardinality(LogAt("suart_destroy")) = 1

\* the mux was routed, suart_init_defaults failed, and the command is over
C27_Witness ==
    /\ cmd = "console"
    /\ pc = "exited"
    /\ LogAt("uart_mux_route") # {}
    /\ LogAt("suart_init_defaults: failed") # {}
    /\ LogAt("uart_mux_restore") # {}
    /\ LogAt("suart_destroy") = {}

\* the user gave both -S and -L, neither of them 0
ExplicitRange ==
    /\ cmd = "read ram"
    /\ UserValue("-S") > 0
    /\ UserValue("-L") > 0

\* C28: read ram accepts every explicit range (start > 0, length > 0) that
\* lies inside the probed DRAM region, also when that region, or the range,
\* ends exactly at the top of the 32-bit address space.
C28_ContainedAccepted ==
    /\ (ExplicitRange /\ UserValue("-S") + UserValue("-L") <= U32_SPAN)
          => exit_status # EX_USAGE
    /\ (ExplicitRange /\ dram # NoRegion
                      /\ Contained(UserValue("-S"), UserValue("-L"), dram))
          => rc # 0 - EINVAL

\* bytes the first k flash_write calls were given
RECURSIVE Written(_)
Written(k) == IF k = 0 THEN 0 ELSE Written(k - 1) + xfer[k].length

\* the sfc write loop has been entered
SfcWriting == cmd = "sfc" /\ sfc_op = "write" /\ chip # "none"

\* C29: sfc write writes the input as contiguous chunks of at most 64 KiB,
\* the k-th at the initial address plus the bytes of all earlier chunks; the
\* loop ends at end of input; after the first failed read or flash_write no
\* flash_write follows and the failure code is the command's result.
C29_WriteLoop ==
    SfcWriting =>
        /\ \A k \in 1..Len(xfer) :
              /\ xfer[k].op = "flash_write"
              /\ xfer[k].length \in 1..SFC_FLASH_WIN
              /\ xfer[k].start = UserValue("-a") + Written(k - 1)
              /\ k < Len(xfer) => xfer[k].rc >= 0
        /\ \A i \in LogAt("read: failed"), j \in LogAt("flash_write") : j < i
        /\ Cardinality(LogAt("flash_write")) = Len(xfer)
        /\ (pc = "exited" /\ rc >= 0 /\ LogAt("malloc: failed") = {})
              => stdin_left = 0
        /\ (pc = "exited" /\ (LogAt("read: failed") # {}
                                \/ (xfer # << >> /\ xfer[Len(xfer)].rc < 0)))
              => (rc < 0 /\ op_rc = rc /\ exit_status = EXIT_FAILURE)

\* 100 KiB of input written as 64 KiB and 36 KiB
C29_Witness ==
    /\ SfcWriting
    /\ pc = "exited"
    /\ exit_status = EXIT_SUCCESS
    /\ Len(xfer) = 2
    /\ xfer[1].length = SFC_FLASH_WIN
    /\ xfer[2].start = UserValue("-a") + SFC_FLASH_WIN
    /\ UserValue("-a") > 0

\* C30: sfc write given address A and length L writes no flash address at
\* or beyond A + L, however long the input stream is.
C30_WriteWithinLength ==
    SfcWriting =>
        \A k \in 1..Len(xfer) :
            xfer[k].start + xfer[k].length <= UserValue("-a") + UserValue("-l")

\* the places of the word "via" on the command line of coprocessor run
ViaAt == { k \in 1..Len(sub_argv) : sub_argv[k] = "via" }
RunParsed == sub_argv # << >> /\ sub_argv[1] = "culvert coprocessor run"

\* C31: parse_via succeeds exactly when 1 or 5 words follow the word via;
\* a rejection is -EINVAL and leaves the connection structure as it was; the
\* accepted 1-word form sets the interface and nothing else, so host, port,
\* username and password of the zeroed structure stay unset.
C31_ParseVia ==
    RunParsed =>
        /\ \A argi \in 1..(Len(sub_argv) + 1), args \in {NoConnection, connection} :
              LET n == Len(sub_argv) - argi - 1
                  v == parse_via(argi, sub_argv, args)
              IN /\ (v.rc = 0) <=> (n \in {1, 5})
                 /\ (v.rc # 0) => (v.rc = 0 - EINVAL /\ v.args = args)
                 /\ (v.rc = 0 /\ n = 1)
                       => v.args = [args EXCEPT !.interface = sub_argv[argi + 2]]
                 /\ (v.rc = 0 /\ n = 1 /\ args = NoConnection)
                       => /\ v.args.ip = "" /\ v.args.port = ""
                          /\ v.args.username = "" /\ v.args.password = ""
        \* what cmd_coprocessor_run is left with after one word via
        /\ \A k \in ViaAt :
              (ViaAt = {k} /\ Len(sub_argv) - k \notin {1, 5})
                  => (connection = NoConnection /\ exit_status = EX_USAGE)
        /\ \A k \in ViaAt :
              (ViaAt = {k} /\ Len(sub_argv) - k = 1)
                  => connection = [NoConnection EXCEPT !.interface = sub_argv[k + 1]]

\* run ADDRESS LENGTH via iface accepted, and the interface alone handed on
C31_Witness ==
    /\ RunParsed
    /\ Len(sub_argv) = 5
    /\ sub_argv[4] = "via"
    /\ connection = [NoConnection EXCEPT !.interface = "iface"]
    /\ host_argv = << "iface" >>
    /\ negotiated

\* state->argc - state->next at ARGP_KEY_ARGS: the command word, the word
\* of its sub-command when it has one, and every word behind them
RemainingWords ==
    (Len(sub_argv) - 1)
    + (IF cmd \in {"read firmware", "read ram", "coprocessor run", "coprocessor stop"}
       THEN 2 ELSE 1)
\* the indices i of arguments->args[i] = state->argv[state->next + i]
args_written == IF sub_argv = << >> THEN {} ELSE 0..(RemainingWords - 1)

\* C32: collecting the remaining words into arguments->args, of capacity 2,
\* the top-level parser writes at no index >= 2, however many words remain.
C32_ArgsInBounds == \A i \in args_written : i < 2

\* state->name and name of the call of parse_subcommand that parsed sub_argv
SubcommandCall ==
    IF cmd \in {"read firmware", "read ram"}
    THEN [parent |-> "culvert read", name |-> IF cmd = "read ram" THEN "ram" ELSE "firmware"]
    ELSE IF cmd \in {"coprocessor run", "coprocessor stop"}
    THEN [parent |-> "culvert coprocessor",
          name |-> IF cmd = "coprocessor run" THEN "run" ELSE "stop"]
    ELSE [parent |-> "culvert", name |-> cmd]
\* malloc(strlen(state->name) + strlen(name) + 1)
parse_subcommand_size(p, n) == Len(p) + Len(n) + 1
\* sprintf(argv[0], "%s %s", state->name, name)
parse_subcommand_argv0(p, n) == p \o " " \o n

\* C33: the buffer parse_subcommand allocates for the synthesized argv[0]
\* holds the string written into it: its size is at least len(p) + 1
\* (space) + len(n) + 1 (terminator) for the parent name p and the
\* sub-command name n.
C33_Argv0Fits ==
    sub_argv # << >> =>
        LET c == SubcommandCall IN
        parse_subcommand_size(c.parent, c.name)
            >= Len(parse_subcommand_argv0(c.parent, c.name)) + 1

\* the string the model keeps as argv[0] is the one sprintf writes
Argv0Synthesized ==
    sub_argv # << >> =>
        sub_argv[1] = parse_subcommand_argv0(SubcommandCall.parent, SubcommandCall.name)
====
